---- MODULE Spec2Model ----
(***************************************************************************)
(* The vector store of apps/vector (three Postgres tables behind six HTTP  *)
(* handlers) and the memory formation pipeline of apps/api that writes to  *)
(* it.  A transaction (sql.begin) is a write set that becomes visible in   *)
(* the tables at its commit and is discarded when a statement throws.      *)
(***************************************************************************)
EXTENDS Integers, Sequences, FiniteSets, TLC

\* ------------------------------------------------------------------ inputs

\* Request handlers that may be in flight at the same time.
Procs == {"p1", "p2"}
\* Turns whose memory pipeline may be running at the same time.
Runs == {"r1", "r2"}

Users == {"user_1", "user_2"}
\* A userId that is absent from the request: `if (userId)` is false.
NoUser == "undefined"
\* Vector ids; the schema admits any string, the empty one included.
Ids == {"", "a"}
\* Is a JavaScript string truthy: `v.id`, `userId`, `decision.target_id`.
Truthy(s) == s # "" /\ s # NoUser

\* VECTOR_DIMENSION of the vectors.values column.
D == 3
\* The most records one insert/upsert request carries.
MaxBatch == 2
\* The most rows of memory_updates the model lets accumulate.
MaxAudit == 1

EmptyFcn == [x \in {} |-> x]
\* The elements of a sequence.
Range(s) == { s[i] : i \in 1..Len(s) }
\* A metadata that is absent from a record: stored as {}.
NoMeta == [undefined |-> TRUE]
EmptyObject == EmptyFcn
\* A reason that is absent from a delete-memory request.
NoReason == "undefined"
Reasons == {NoReason, "forgotten"}

\* The (values, metadata) pairs requests carry; the last has the wrong dimension.
Contents ==
    { [values |-> <<1, 0, 0>>, metadata |-> [type |-> "test"]],
      [values |-> <<0, 1, 0>>, metadata |-> NoMeta],
      [values |-> <<1, 0>>, metadata |-> [type |-> "test"]] }
VectorInputs == { [id |-> i, values |-> c.values, metadata |-> c.metadata] : i \in Ids, c \in Contents }
QueryVectors == { <<1, 0, 0>> }
TopKs == {1, 5}

\* The ids of the records queries are ranked over, in ascending order.
RankIds == <<"1", "2", "3">>
\* Their embeddings: the same direction at two scales, 10 degrees off
\* ([0.99, 0.14, 0] scaled to integers), orthogonal, opposite, and zero.
RankValues == { <<1, 0, 0>>, <<2, 0, 0>>, <<99, 14, 0>>, <<0, 1, 0>>, <<-1, 0, 0>>, <<0, 0, 0>> }
\* The query vectors and topK values ranked queries carry.
RankQueries == { <<1, 0, 0>>, <<0, 0, 0>>, <<1, 0>> }
RankTopKs == { -1, 0, 2 }

\* ------------------------------------------------------------------ state

VARIABLES
    vectors,          \* table vectors: id -> [values, metadata]
    users_vectors,    \* table users_vectors: set of <<user_id, vector_id>>
    memory_updates,   \* table memory_updates: sequence of rows, oldest first
    pc,               \* per handler: where it is
    req,              \* per handler: the validated request
    idx,              \* per handler: 1-based position of the for-loop over vectors
    v,                \* per handler: the loop variable, the record being written
    result,           \* per handler: did the last RETURNING return a row
    insertedIds,      \* per handler: insertedIds / upsertedIds
    tx,               \* per handler: the open transaction's write set
    resp,             \* the response the last step sent, NoResp when it sent none
    mpc,              \* per pipeline run: where processMemories is
    userId,           \* per pipeline run: the user the turn belongs to
    extracted,        \* per pipeline run: extracted.memories
    existing,         \* per pipeline run: existing.matches
    decisions,        \* per pipeline run: resolution.decisions
    di,               \* per pipeline run: 1-based position of the for-loop over decisions
    uuid,             \* per pipeline run: the id drawn for the decision's record
    vector,           \* per pipeline run: the embedding last awaited
    chat,             \* per turn: the chat-completions handler, its locals and its response
    boot,             \* initDb: its parameters, loop variable and what it has done
    mon               \* the deployment monitor, the branch it follows and the commits' check runs

dbVars == <<vectors, users_vectors, memory_updates>>
procVars == <<pc, req, idx, v, result, insertedIds, tx>>
memVars == <<mpc, userId, extracted, existing, decisions, di, uuid, vector>>
vars == <<vectors, users_vectors, memory_updates, pc, req, idx, v, result, insertedIds, tx, resp,
          mpc, userId, extracted, existing, decisions, di, uuid, vector, chat, boot, mon>>
opsVars == <<boot, mon>>

\* ------------------------------------------------------- rows and write sets

\* The write set of a transaction that has written nothing.
EmptyTx == [vecs |-> EmptyFcn, links |-> {}, unlinks |-> {}, audits |-> <<>>]

\* The row INSERT INTO vectors writes for record rec: `v.metadata || {}`.
Row(rec) ==
    [values |-> rec.values,
     metadata |-> IF rec.metadata = NoMeta THEN EmptyObject ELSE rec.metadata]

\* A values column without a dimension: vector, not vector(dim).
AnyDimension(values) == FALSE

\* pgvector refuses a value whose length is not the column's dimension.
DimensionError(values) == Len(values) # D

\* Does the transaction see a vectors row with this id.
VecVisible(t, id) == id \in DOMAIN vectors \/ id \in DOMAIN t.vecs
\* Does the transaction see the link row.
LinkVisible(t, u, id) ==
    \/ <<u, id>> \in t.links
    \/ <<u, id>> \in users_vectors /\ <<u, id>> \notin t.unlinks

\* INSERT INTO vectors ... ON CONFLICT (id) DO NOTHING RETURNING id
InsertVectorReturns(t, rec) == ~VecVisible(t, rec.id)
InsertVectorTx(t, rec) ==
    IF VecVisible(t, rec.id) THEN t
    ELSE [t EXCEPT !.vecs = (rec.id :> Row(rec)) @@ @]

\* INSERT INTO vectors ... ON CONFLICT (id) DO UPDATE SET values, metadata RETURNING id
UpsertVectorTx(t, rec) == [t EXCEPT !.vecs = (rec.id :> Row(rec)) @@ @]

\* INSERT INTO users_vectors ... ON CONFLICT (user_id, vector_id) DO NOTHING
InsertLinkTx(t, u, id) ==
    IF LinkVisible(t, u, id) THEN t
    ELSE [t EXCEPT !.links = @ \cup {<<u, id>>}, !.unlinks = @ \ {<<u, id>>}]

\* A DELETE FROM users_vectors WHERE vector_id = id, without the user.
DeleteAllLinksTx(t, u, id) ==
    [t EXCEPT !.links = { l \in @ : l[2] # id },
              !.unlinks = @ \cup { l \in users_vectors : l[2] = id }]

\* DELETE FROM users_vectors WHERE user_id = u AND vector_id = id RETURNING vector_id
DeleteLinkTx(t, u, id) ==
    [t EXCEPT !.links = @ \ {<<u, id>>},
              !.unlinks = IF <<u, id>> \in users_vectors THEN @ \cup {<<u, id>>} ELSE @]

\* An audit row that drops the reason of the request.
AuditRowManual(u, id, reason) ==
    [user_id |-> u, old_vector_id |-> id, new_vector_id |-> "NULL", reason |-> "manual_deletion"]

\* The row INSERT INTO memory_updates writes: `reason || "manual_deletion"`.
\* new_vector_id is not in the column list; id and created_at are defaults.
AuditRow(u, id, reason) ==
    [user_id |-> u, old_vector_id |-> id, new_vector_id |-> "NULL",
     reason |-> IF reason = NoReason THEN "manual_deletion" ELSE reason]
InsertAuditTx(t, u, id, reason) == [t EXCEPT !.audits = Append(@, AuditRow(u, id, reason))]

\* A commit that leaves the rows already committed as they are.
KeepCommitted(t) == vectors @@ t.vecs

\* The tables after the transaction commits.
CommitVectors(t) == t.vecs @@ vectors
CommitLinks(t) == (users_vectors \ t.unlinks) \cup t.links
CommitAudit(t) == memory_updates \o t.audits

\* The vectors rows a transaction holds a lock on: rows it wrote, rows its new
\* links reference (foreign key), rows whose links it deleted.
Locked(t) == DOMAIN t.vecs \cup { l[2] : l \in t.links \cup t.unlinks }

\* ---------------------------------------------------------------- responses

NoReq == [op |-> "none", userId |-> NoUser, ids |-> {}, vectorId |-> "", reason |-> NoReason,
          vector |-> <<>>, topK |-> 0]
NoVec == [id |-> "", values |-> <<>>, metadata |-> NoMeta]

\* A response: its status and body (ids, deleted, rows, error), with the
\* request it answers (req) and the write set of the transaction it ended (tx).
NoResp == [op |-> "none", status |-> 0, ids |-> <<>>, deleted |-> FALSE, rows |-> {},
           error |-> "", req |-> NoReq, tx |-> EmptyTx]
Ok(r, ids, t) == [NoResp EXCEPT !.op = r.op, !.status = 200, !.ids = ids, !.req = r, !.tx = t]
\* catch (error) { return c.json({ error: error.message }, 500) }
Error500(r, message, t) ==
    [NoResp EXCEPT !.op = r.op, !.status = 500, !.error = message, !.req = r, !.tx = t]

\* A memories field that is absent from a response body.
NoMemories == <<"undefined">>
\* The chat-completions handler of a turn that has not arrived: userId is
\* the x-openwebui-user-id header, message says whether the request holds a
\* user message, retrievalFailed says whether the retrieval's catch block
\* ran (it logs "[RAG] Retrieval failed:"), status/body/memories are the
\* response.
NoChat == [pc |-> "idle", userId |-> NoUser, message |-> FALSE, stream |-> FALSE,
           relevantMemories |-> <<>>, retrievalFailed |-> FALSE,
           status |-> 0, body |-> "none", memories |-> NoMemories]

\* initDb before it is called: retries is its parameter, i the loop variable,
\* attempts counts the CREATE EXTENSION statements sent, code is the code of
\* the last error caught, extension and tables say what the database holds.
NoBoot == [pc |-> "idle", retries |-> 0, i |-> 0, attempts |-> 0, code |-> "none",
           extension |-> FALSE, tables |-> FALSE]

\* The commits of the branch, oldest first; the working tree starts at the
\* first.
Commits == <<"c0", "c1", "c2">>
\* The deployment monitor before it starts: token says whether GITHUB_TOKEN
\* is set; local is HEAD, remote is origin/$BRANCH as last fetched, origin is
\* the branch on the remote, checks maps each commit to the check runs it
\* has there; curlOk says whether the last CI query got an answer, answer
\* is what the monitor made of it; pulled and restarted are the commits the
\* monitor reset to and ran docker compose on.
Succeeded == [status |-> "completed", conclusion |-> "success"]
NoMon == [pc |-> "idle", token |-> FALSE, firstRun |-> TRUE,
          local |-> Commits[1], remote |-> Commits[1], origin |-> Commits[1],
          checks |-> [c \in Range(Commits) |-> IF c = Commits[1] THEN {Succeeded} ELSE {}],
          curlOk |-> TRUE, answer |-> "none", pulled |-> {}, restarted |-> {}]

\* No handler and no pipeline run is in flight.
InitHandlers ==
    /\ pc = [p \in Procs |-> "idle"]
    /\ req = [p \in Procs |-> NoReq]
    /\ idx = [p \in Procs |-> 1]
    /\ v = [p \in Procs |-> NoVec]
    /\ result = [p \in Procs |-> FALSE]
    /\ insertedIds = [p \in Procs |-> <<>>]
    /\ tx = [p \in Procs |-> EmptyTx]
    /\ resp = NoResp
    /\ mpc = [r \in Runs |-> "idle"]
    /\ userId = [r \in Runs |-> NoUser]
    /\ extracted = [r \in Runs |-> <<>>]
    /\ existing = [r \in Runs |-> <<>>]
    /\ decisions = [r \in Runs |-> <<>>]
    /\ di = [r \in Runs |-> 1]
    /\ uuid = [r \in Runs |-> ""]
    /\ vector = [r \in Runs |-> <<>>]
    /\ chat = [r \in Runs |-> NoChat]
    /\ boot = NoBoot
    /\ mon = NoMon

\* The tables initDb leaves: created, empty.
Init ==
    /\ vectors = EmptyFcn
    /\ users_vectors = {}
    /\ memory_updates = <<>>
    /\ InitHandlers

\* ------------------------------------------------------------- transactions

InTxn(p) == pc[p] # "idle"
\* A statement that must wait for a row another open transaction has written.
WaitsFor(p, id) == \E q \in Procs \ {p} : InTxn(q) /\ id \in DOMAIN tx[q].vecs

\* The handler returns: its locals are gone.
Return(p) ==
    /\ pc' = [pc EXCEPT ![p] = "idle"]
    /\ req' = [req EXCEPT ![p] = NoReq]
    /\ idx' = [idx EXCEPT ![p] = 1]
    /\ v' = [v EXCEPT ![p] = NoVec]
    /\ result' = [result EXCEPT ![p] = FALSE]
    /\ insertedIds' = [insertedIds EXCEPT ![p] = <<>>]
    /\ tx' = [tx EXCEPT ![p] = EmptyTx]

\* A handler without sql.begin: the statements that ran before the throw stay.
RollbackPartial(p, message) ==
    /\ resp' = Error500(req[p], message, tx[p])
    /\ Return(p)
    /\ UNCHANGED <<memVars, chat, opsVars>>
    /\ vectors' = CommitVectors(tx[p])
    /\ users_vectors' = CommitLinks(tx[p])
    /\ memory_updates' = CommitAudit(tx[p])

\* sql.begin rejects: the write set is discarded and the handler answers 500.
Rollback(p, message) ==
    /\ resp' = Error500(req[p], message, tx[p])
    /\ Return(p)
    /\ UNCHANGED <<dbVars, memVars, chat, opsVars>>

\* The end of one iteration of `for (const v of vectors)`.
NextRecord(p) ==
    /\ idx' = [idx EXCEPT ![p] = @ + 1]
    /\ pc' = [pc EXCEPT ![p] = "loop"]
    /\ v' = [v EXCEPT ![p] = NoVec]
    /\ result' = [result EXCEPT ![p] = FALSE]

\* A handler of a batch opens its transaction: validation passed, sql.begin.
BeginBatch(p, op) ==
    /\ pc[p] = "idle"
    /\ \E u \in Users \cup {NoUser} :
         req' = [req EXCEPT ![p] = [NoReq EXCEPT !.op = op, !.userId = u]]
    /\ pc' = [pc EXCEPT ![p] = "loop"]
    /\ resp' = NoResp
    /\ UNCHANGED <<dbVars, idx, v, result, insertedIds, tx, memVars, chat, opsVars>>

\* POST /insert
BeginInsert(p) == BeginBatch(p, "insert")
\* POST /upsert
BeginUpsert(p) == BeginBatch(p, "upsert")

\* What follows the vector statement of record rec that returned `returned`.
AfterVector(p, rec, returned) ==
    /\ req' = [req EXCEPT ![p].ids = @ \cup {rec.id}]
    /\ insertedIds' = [insertedIds EXCEPT ![p] =
                          IF returned /\ Truthy(rec.id) THEN Append(@, rec.id) ELSE @]
    /\ IF Truthy(rec.id) /\ Truthy(req[p].userId)
         THEN /\ pc' = [pc EXCEPT ![p] = "link"]
              /\ v' = [v EXCEPT ![p] = rec]
              /\ result' = [result EXCEPT ![p] = returned]
              /\ UNCHANGED idx
         ELSE NextRecord(p)
    /\ resp' = NoResp
    /\ UNCHANGED <<dbVars, memVars, chat, opsVars>>

\* The INSERT INTO vectors of /insert for the next record of the batch.
InsertVector(p) ==
    /\ pc[p] = "loop" /\ req[p].op = "insert" /\ idx[p] <= MaxBatch
    /\ \E rec \in VectorInputs :
         /\ ~(rec.id \notin DOMAIN vectors /\ WaitsFor(p, rec.id))
         /\ IF DimensionError(rec.values)
              THEN Rollback(p, "expected D dimensions")
              ELSE /\ tx' = [tx EXCEPT ![p] = InsertVectorTx(@, rec)]
                   /\ AfterVector(p, rec, InsertVectorReturns(tx[p], rec))

\* The INSERT INTO vectors ... DO UPDATE of /upsert for the next record.
UpsertVector(p) ==
    /\ pc[p] = "loop" /\ req[p].op = "upsert" /\ idx[p] <= MaxBatch
    /\ \E rec \in VectorInputs :
         /\ ~WaitsFor(p, rec.id)
         /\ IF DimensionError(rec.values)
              THEN Rollback(p, "expected D dimensions")
              ELSE /\ tx' = [tx EXCEPT ![p] = UpsertVectorTx(@, rec)]
                   /\ AfterVector(p, rec, TRUE)

\* A users_vectors whose vector_id does not reference vectors(id): the link
\* is written whether or not the record is still there.
LinkUnchecked(p) ==
    /\ pc[p] = "link"
    /\ tx' = [tx EXCEPT ![p] = InsertLinkTx(@, req[p].userId, v[p].id)]
    /\ NextRecord(p)
    /\ resp' = NoResp
    /\ UNCHANGED <<dbVars, req, insertedIds, memVars, chat, opsVars>>

\* INSERT INTO users_vectors for the loop's record; the foreign key rejects a
\* link to a row deleted since the vector statement.
LinkStatement(p) ==
    /\ pc[p] = "link"
    /\ IF ~VecVisible(tx[p], v[p].id)
         THEN Rollback(p, "violates foreign key constraint")
         ELSE /\ tx' = [tx EXCEPT ![p] = InsertLinkTx(@, req[p].userId, v[p].id)]
              /\ NextRecord(p)
              /\ resp' = NoResp
              /\ UNCHANGED <<dbVars, req, insertedIds, memVars, chat, opsVars>>

\* The link statement of /insert, for a new record and for one that existed.
InsertLink(p) == req[p].op = "insert" /\ LinkStatement(p)
\* The link statement of /upsert.
UpsertLink(p) == req[p].op = "upsert" /\ LinkStatement(p)

\* The tables a committing transaction leaves.
Commit(p) ==
    /\ vectors' = CommitVectors(tx[p])
    /\ users_vectors' = CommitLinks(tx[p])
    /\ memory_updates' = CommitAudit(tx[p])

\* The batch is exhausted and sql.begin resolves; return c.json({ count, ids }).
CommitBatch(p) ==
    /\ pc[p] = "loop"
    /\ Commit(p)
    /\ resp' = Ok(req[p], insertedIds[p], tx[p])
    /\ Return(p)
    /\ UNCHANGED <<memVars, chat, opsVars>>

CommitInsert(p) == req[p].op = "insert" /\ CommitBatch(p)
CommitUpsert(p) == req[p].op = "upsert" /\ CommitBatch(p)

\* POST /delete-memory: validation passed, sql.begin opens.
BeginDeleteMemory(p) ==
    /\ pc[p] = "idle"
    /\ \E u \in Users, id \in Ids, r \in Reasons :
         /\ <<u, id>> \in users_vectors => Len(memory_updates) < MaxAudit
         /\ req' = [req EXCEPT ![p] =
                      [NoReq EXCEPT !.op = "delete-memory", !.userId = u,
                                    !.vectorId = id, !.reason = r]]
    /\ pc' = [pc EXCEPT ![p] = "unlink"]
    /\ resp' = NoResp
    /\ UNCHANGED <<dbVars, idx, v, result, insertedIds, tx, memVars, chat, opsVars>>

\* The DELETE of the link run outside the transaction: visible at once.
DeleteLinkAutocommit(p) ==
    /\ pc[p] = "unlink"
    /\ result' = [result EXCEPT ![p] = <<req[p].userId, req[p].vectorId>> \in users_vectors]
    /\ users_vectors' = users_vectors \ {<<req[p].userId, req[p].vectorId>>}
    /\ pc' = [pc EXCEPT ![p] = IF result'[p] THEN "audit" ELSE "unlinked"]
    /\ resp' = NoResp
    /\ UNCHANGED <<vectors, memory_updates, req, idx, v, insertedIds, tx, memVars, chat, opsVars>>

\* 1. Remove link: DELETE FROM users_vectors ... RETURNING vector_id.
DeleteLink(p) ==
    /\ pc[p] = "unlink"
    /\ result' = [result EXCEPT ![p] = LinkVisible(tx[p], req[p].userId, req[p].vectorId)]
    /\ tx' = [tx EXCEPT ![p] = DeleteLinkTx(@, req[p].userId, req[p].vectorId)]
    /\ pc' = [pc EXCEPT ![p] = IF result'[p] THEN "audit" ELSE "unlinked"]
    /\ resp' = NoResp
    /\ UNCHANGED <<dbVars, req, idx, v, insertedIds, memVars, chat, opsVars>>

\* 2. Log update: INSERT INTO memory_updates, when a link was deleted.
InsertAudit(p) ==
    /\ pc[p] = "audit"
    /\ tx' = [tx EXCEPT ![p] = InsertAuditTx(@, req[p].userId, req[p].vectorId, req[p].reason)]
    /\ pc' = [pc EXCEPT ![p] = "unlinked"]
    /\ resp' = NoResp
    /\ UNCHANGED <<dbVars, req, idx, v, result, insertedIds, memVars, chat, opsVars>>

\* A /delete-memory that collects garbage: the commit also deletes the record
\* when the link it removed was the last one.
CommitDeleteMemoryCollect(p) ==
    /\ pc[p] = "unlinked"
    /\ users_vectors' = CommitLinks(tx[p])
    /\ memory_updates' = CommitAudit(tx[p])
    /\ vectors' = [id \in { i \in DOMAIN vectors :
                              i # req[p].vectorId \/ \E l \in users_vectors' : l[2] = i }
                      |-> vectors[id]]
    /\ resp' = [Ok(req[p], <<>>, tx[p]) EXCEPT !.deleted = TRUE]
    /\ Return(p)
    /\ UNCHANGED <<memVars, chat, opsVars>>

\* return c.json({ success: true, deleted: true })
DeleteMemoryResponse(r, t) == [Ok(r, <<>>, t) EXCEPT !.deleted = TRUE]

\* sql.begin resolves and /delete-memory answers.
CommitDeleteMemory(p) ==
    /\ pc[p] = "unlinked"
    /\ Commit(p)
    /\ resp' = DeleteMemoryResponse(req[p], tx[p])
    /\ Return(p)
    /\ UNCHANGED <<memVars, chat, opsVars>>

\* Any statement, or the commit, throws (the store is unavailable).
Fail(p) ==
    /\ InTxn(p)
    /\ Rollback(p, "store unavailable")

\* ------------------------------------------------------------------ ranking

RECURSIVE DotFrom(_, _, _)
DotFrom(a, b, i) == IF i > Len(a) THEN 0 ELSE a[i] * b[i] + DotFrom(a, b, i + 1)
Dot(a, b) == DotFrom(a, b, 1)
Norm2(a) == Dot(a, a)

\* `x <=> q` is NaN when either vector has zero magnitude.
IsNaN(q, x) == Norm2(q) = 0 \/ Norm2(x) = 0

\* A ranking by inner product, which grows with the magnitude.
DotGE(q, x, y) == Dot(q, x) >= Dot(q, y)

\* cosine(q, x) >= cosine(q, y), both defined, compared without the roots.
CosGE(q, x, y) ==
    LET dx == Dot(q, x)  dy == Dot(q, y)  nx == Norm2(x)  ny == Norm2(y) IN
    IF dx >= 0 /\ dy >= 0 THEN dx * dx * ny >= dy * dy * nx
    ELSE IF dx >= 0 THEN TRUE
    ELSE IF dy >= 0 THEN FALSE
    ELSE dx * dx * ny <= dy * dy * nx

\* (x <=> q) <= (y <=> q) in Postgres' order of floats, where NaN sorts last.
DistLE(q, x, y) ==
    IF IsNaN(q, y) THEN TRUE ELSE IF IsNaN(q, x) THEN FALSE ELSE CosGE(q, x, y)

Min(a, b) == IF a < b THEN a ELSE b

\* The candidates of a query that never joins users_vectors.
CandidatesAll(u) == DOMAIN vectors

\* The candidates of a query that leaves out the records memory_updates names.
CandidatesUnaudited(u) ==
    { id \in (IF Truthy(u) THEN { i \in DOMAIN vectors : <<u, i>> \in users_vectors }
                           ELSE DOMAIN vectors) :
        \A k \in 1..Len(memory_updates) : memory_updates[k].old_vector_id # id }

\* FROM vectors v JOIN users_vectors uv ... WHERE uv.user_id = userId,
\* or FROM vectors when no userId is given.
Candidates(u) ==
    IF Truthy(u) THEN { id \in DOMAIN vectors : <<u, id>> \in users_vectors }
    ELSE DOMAIN vectors

\* ORDER BY values <=> q LIMIT topK: every order the engine may return; rows
\* at the same distance come in any order.
TopK(cands, q, topK) ==
    LET m == Min(topK, Cardinality(cands)) IN
    { s \in [1..m -> cands] :
        /\ \A i, j \in 1..m : i < j => s[i] # s[j] /\ DistLE(q, vectors[s[i]].values, vectors[s[j]].values)
        /\ \A c \in cands \ { s[i] : i \in 1..m } :
             \A i \in 1..m : DistLE(q, vectors[s[i]].values, vectors[c].values) }

\* Every order in which the rows of a set may be returned.
Orders(S) == { s \in [1..Cardinality(S) -> S] : \A i, j \in 1..Cardinality(S) : i # j => s[i] # s[j] }

\* ------------------------------------------------- single-statement handlers

\* POST /query for a request drawn from the given users, vectors and topKs.
\* LIMIT refuses a negative count before any row is read; LIMIT 0 returns no
\* row, and the engine may or may not have computed a distance by then; the
\* distance operator throws on a row of another dimension.
QueryOf(p, users, qs, ks) ==
    /\ pc[p] = "idle"
    /\ \E u \in users, q \in qs, topK \in ks :
         LET r == [NoReq EXCEPT !.op = "query", !.userId = u, !.vector = q, !.topK = topK]
             mismatch == Candidates(u) # {} /\ DimensionError(q) IN
         \/ /\ topK < 0
            /\ resp' = Error500(r, "LIMIT must not be negative", EmptyTx)
         \/ /\ topK = 0
            /\ resp' = Ok(r, <<>>, EmptyTx)
         \/ /\ topK >= 0 /\ mismatch
            /\ resp' = Error500(r, "different vector dimensions", EmptyTx)
         \/ /\ topK > 0 /\ ~mismatch
            /\ \E s \in TopK(Candidates(u), q, topK) : resp' = Ok(r, s, EmptyTx)
    /\ UNCHANGED <<dbVars, procVars, memVars, chat, opsVars>>

\* POST /query
Query(p) == QueryOf(p, Users \cup {NoUser}, QueryVectors, TopKs)

\* A DELETE on vectors that leaves the links of the deleted records behind.
KeepLinks(deleted) == users_vectors
\* ON DELETE CASCADE of users_vectors.vector_id: the links that remain when
\* the records of deleted go.
Cascade(deleted) == { l \in users_vectors : l[2] \notin deleted }

\* POST /deleteByIds: one DELETE FROM vectors, cascading to users_vectors; it
\* waits while an open transaction holds a lock on a row it deletes.
DeleteByIds(p) ==
    /\ pc[p] = "idle"
    /\ \E ids \in SUBSET Ids :
         LET deleted == ids \cap DOMAIN vectors
             r == [NoReq EXCEPT !.op = "deleteByIds", !.ids = ids] IN
         /\ \A q \in Procs : InTxn(q) => Locked(tx[q]) \cap deleted = {}
         /\ vectors' = [i \in DOMAIN vectors \ deleted |-> vectors[i]]
         /\ users_vectors' = Cascade(deleted)
         /\ \E s \in Orders(deleted) : resp' = Ok(r, s, EmptyTx)
    /\ UNCHANGED <<memory_updates, procVars, memVars, chat, opsVars>>

\* POST /getByIds
GetByIds(p) ==
    /\ pc[p] = "idle"
    /\ \E ids \in SUBSET Ids :
         LET r == [NoReq EXCEPT !.op = "getByIds", !.ids = ids] IN
         resp' = [Ok(r, <<>>, EmptyTx) EXCEPT !.rows =
                    { [id |-> i, values |-> vectors[i].values, metadata |-> vectors[i].metadata] :
                        i \in ids \cap DOMAIN vectors }]
    /\ UNCHANGED <<dbVars, procVars, memVars, chat, opsVars>>

\* ------------------------------------------------------ the memory pipeline

\* Facts the extraction model may name.
Facts == {"f1", "f2"}
\* What generateObject may return as extracted.memories.
Extractions == {<<>>, <<"f1">>, <<"f1", "f2">>}
\* What mistralEmbed may return.
Embeddings == {<<1, 0, 0>>}
\* topK of the pipeline's retrieval.
RetrieveTopK == 10
\* The most decisions one resolution carries.
MaxDecisions == 2
\* The ids crypto.randomUUID() returns, in the order it returns them.
UUIDs == <<"uuid1", "uuid2", "uuid3">>
\* A target_id absent from a decision.
NoTarget == "undefined"

\* What generateObject may return as one decision: target_id and reason are
\* optional, and nothing ties target_id to the memories retrieved.
Decisions ==
    { d \in [action : {"add", "replace", "ignore"}, target_id : {NoTarget, "a"},
             reason : {NoReason, "contradiction"}, fact : Facts] :
        /\ d.action = "ignore" => d.target_id = NoTarget
        /\ d.action # "replace" => d.reason = NoReason }
Resolutions == UNION { [1..n -> Decisions] : n \in 0..MaxDecisions }

\* The metadata of a memory: { content, type: "memory", created_at }.
MemoryMetadata(fact) == [content |-> fact, type |-> "memory", created_at |-> "now"]
\* m.metadata?.content || ""
Content(metadata) == IF "content" \in DOMAIN metadata THEN metadata.content ELSE ""

\* A memory stored before the turn.
SeedRow == [values |-> <<1, 0, 0>>, metadata |-> MemoryMetadata("f0")]

\* A /delete-memory whose DELETE leaves out `user_id = userId`: every link
\* to the record goes.
DeleteMemoryOfAllTx(u, id, reason) ==
    LET t == DeleteAllLinksTx(EmptyTx, u, id) IN
    IF LinkVisible(EmptyTx, u, id) THEN InsertAuditTx(t, u, id, reason) ELSE t

\* The write set of one whole /delete-memory transaction.
DeleteMemoryTx(u, id, reason) ==
    LET t == DeleteLinkTx(EmptyTx, u, id) IN
    IF LinkVisible(EmptyTx, u, id) THEN InsertAuditTx(t, u, id, reason) ELSE t

\* The write set of one whole /insert transaction of a single record.
InsertOneTx(rec, u) ==
    LET t == InsertVectorTx(EmptyTx, rec) IN
    IF Truthy(rec.id) /\ Truthy(u) THEN InsertLinkTx(t, u, rec.id) ELSE t

\* The store runs a request of the pipeline from sql.begin to its commit.
Apply(t) ==
    /\ vectors' = CommitVectors(t)
    /\ users_vectors' = CommitLinks(t)
    /\ memory_updates' = CommitAudit(t)

\* The next id crypto.randomUUID() has not returned yet.
FreshUUID ==
    LET used == DOMAIN vectors \cup { uuid[r] : r \in Runs }
        k == CHOOSE i \in 1..Len(UUIDs) : UUIDs[i] \notin used /\ \A j \in 1..(i - 1) : UUIDs[j] \in used
    IN UUIDs[k]

\* The decision the for-loop is at.
Decision(r) == decisions[r][di[r]]
InLoop(r) == mpc[r] = "decision" /\ di[r] <= Len(decisions[r])
\* A pipeline that calls deleteMemory for every decision that names a target.
AnyTargetDeletes(d) == Truthy(d.target_id)
\* decision.action === "replace" && decision.target_id
NeedsDelete(d) == d.action = "replace" /\ Truthy(d.target_id)

\* memoryService.processMemories(userId, lastUserMessage, coreMessages)
StartMemoryOf(r, users) ==
    /\ mpc[r] = "idle"
    /\ \E u \in users : userId' = [userId EXCEPT ![r] = u]
    /\ mpc' = [mpc EXCEPT ![r] = "extract"]
    /\ UNCHANGED <<dbVars, procVars, resp, chat, opsVars, extracted, existing, decisions, di, uuid, vector>>

StartMemory(r) == StartMemoryOf(r, Users)

\* An extraction whose empty list does not end the run.
ExtractAndGoOn(r) ==
    /\ mpc[r] = "extract"
    /\ \E m \in Extractions :
         /\ extracted' = [extracted EXCEPT ![r] = m]
         /\ mpc' = [mpc EXCEPT ![r] = "embed"]
    /\ UNCHANGED <<dbVars, procVars, resp, chat, opsVars, userId, existing, decisions, di, uuid, vector>>

\* 1. Extract Facts; an empty list returns.
ExtractOf(r, extractions) ==
    /\ mpc[r] = "extract"
    /\ \E m \in extractions :
         /\ extracted' = [extracted EXCEPT ![r] = m]
         /\ mpc' = [mpc EXCEPT ![r] = IF Len(m) = 0 THEN "returned" ELSE "embed"]
    /\ UNCHANGED <<dbVars, procVars, resp, chat, opsVars, userId, existing, decisions, di, uuid, vector>>

Extract(r) == ExtractOf(r, Extractions)

\* const embedding = await mistralEmbed(combinedText)
EmbedMemories(r) ==
    /\ mpc[r] = "embed"
    /\ \E e \in Embeddings : vector' = [vector EXCEPT ![r] = e]
    /\ mpc' = [mpc EXCEPT ![r] = "query"]
    /\ UNCHANGED <<dbVars, procVars, resp, chat, opsVars, userId, extracted, existing, decisions, di, uuid>>

\* A retrieval that passes no userId: a query over the whole store.
RetrieveGlobal(r) ==
    /\ mpc[r] = "query"
    /\ \E s \in TopK(Candidates(NoUser), vector[r], RetrieveTopK) :
         existing' = [existing EXCEPT ![r] =
                        [i \in 1..Len(s) |-> [id |-> s[i], content |-> Content(vectors[s[i]].metadata)]]]
    /\ mpc' = [mpc EXCEPT ![r] = "resolve"]
    /\ vector' = [vector EXCEPT ![r] = <<>>]
    /\ UNCHANGED <<dbVars, procVars, resp, chat, opsVars, userId, extracted, decisions, di, uuid>>

\* 2. Retrieval: vectorService.query(embedding, { userId, topK: 10, returnMetadata: true })
Retrieve(r) ==
    /\ mpc[r] = "query"
    /\ \E s \in TopK(Candidates(userId[r]), vector[r], RetrieveTopK) :
         existing' = [existing EXCEPT ![r] =
                        [i \in 1..Len(s) |-> [id |-> s[i], content |-> Content(vectors[s[i]].metadata)]]]
    /\ mpc' = [mpc EXCEPT ![r] = "resolve"]
    /\ vector' = [vector EXCEPT ![r] = <<>>]
    /\ UNCHANGED <<dbVars, procVars, resp, chat, opsVars, userId, extracted, decisions, di, uuid>>

\* 3. De-duplication / Conflict Resolution
ResolveOf(r, resolutions) ==
    /\ mpc[r] = "resolve"
    /\ \E d \in resolutions : decisions' = [decisions EXCEPT ![r] = d]
    /\ mpc' = [mpc EXCEPT ![r] = "decision"]
    /\ UNCHANGED <<dbVars, procVars, resp, chat, opsVars, userId, extracted, existing, di, uuid, vector>>

Resolve(r) == ResolveOf(r, Resolutions)

\* A loop that also skips a replace that names no target.
IgnoreUntargeted(r) ==
    /\ InLoop(r)
    /\ \/ Decision(r).action = "ignore"
       \/ Decision(r).action = "replace" /\ ~Truthy(Decision(r).target_id)
    /\ di' = [di EXCEPT ![r] = @ + 1]
    /\ UNCHANGED <<dbVars, procVars, resp, chat, opsVars, mpc, userId, extracted, existing, decisions, uuid, vector>>

\* if (decision.action === "ignore") continue
Ignore(r) ==
    /\ InLoop(r) /\ Decision(r).action = "ignore"
    /\ di' = [di EXCEPT ![r] = @ + 1]
    /\ UNCHANGED <<dbVars, procVars, resp, chat, opsVars, mpc, userId, extracted, existing, decisions, uuid, vector>>

\* A replace that deletes the old record itself (deleteByIds) rather than the
\* user's link to it.
ReplaceHardDelete(r) ==
    /\ InLoop(r) /\ NeedsDelete(Decision(r))
    /\ vectors' = [id \in DOMAIN vectors \ {Decision(r).target_id} |-> vectors[id]]
    /\ users_vectors' = Cascade({Decision(r).target_id})
    /\ mpc' = [mpc EXCEPT ![r] = "embedFact"]
    /\ UNCHANGED <<memory_updates, procVars, resp, chat, opsVars, userId, extracted, existing, decisions, di, uuid, vector>>

\* A deleteMemory that rejects when the link it is to remove is not there.
ReplaceDeleteStrict(r) ==
    /\ InLoop(r) /\ NeedsDelete(Decision(r))
    /\ LET d == Decision(r) IN
         IF <<userId[r], d.target_id>> \in users_vectors
           THEN /\ Apply(DeleteMemoryTx(userId[r], d.target_id,
                                        IF d.reason = NoReason THEN "Replaced by newer fact" ELSE d.reason))
                /\ mpc' = [mpc EXCEPT ![r] = "embedFact"]
           ELSE /\ UNCHANGED dbVars
                /\ mpc' = [mpc EXCEPT ![r] = "failed"]
    /\ UNCHANGED <<procVars, resp, chat, opsVars, userId, extracted, existing, decisions, di, uuid, vector>>

\* await vectorService.deleteMemory(userId, decision.target_id,
\*                                  decision.reason || "Replaced by newer fact")
ReplaceDelete(r) ==
    /\ InLoop(r) /\ NeedsDelete(Decision(r))
    /\ LET d == Decision(r) IN
         Apply(DeleteMemoryTx(userId[r], d.target_id,
                              IF d.reason = NoReason THEN "Replaced by newer fact" ELSE d.reason))
    /\ mpc' = [mpc EXCEPT ![r] = "embedFact"]
    /\ UNCHANGED <<procVars, resp, chat, opsVars, userId, extracted, existing, decisions, di, uuid, vector>>

\* const id = crypto.randomUUID(); const vector = await mistralEmbed(decision.fact)
EmbedFact(r) ==
    /\ \/ mpc[r] = "embedFact"
       \/ InLoop(r) /\ Decision(r).action \in {"add", "replace"} /\ ~NeedsDelete(Decision(r))
    /\ uuid' = [uuid EXCEPT ![r] = FreshUUID]
    /\ \E e \in Embeddings : vector' = [vector EXCEPT ![r] = e]
    /\ mpc' = [mpc EXCEPT ![r] = "insert"]
    /\ UNCHANGED <<dbVars, procVars, resp, chat, opsVars, userId, extracted, existing, decisions, di>>

\* An insert that is skipped when the user already has a memory of the
\* same content.
InsertFactOnce(r) ==
    /\ mpc[r] = "insert"
    /\ LET rec == [id |-> uuid[r], values |-> vector[r],
                   metadata |-> MemoryMetadata(Decision(r).fact)] IN
         IF \E id \in Candidates(userId[r]) : Content(vectors[id].metadata) = Decision(r).fact
           THEN UNCHANGED dbVars
           ELSE Apply(InsertOneTx(rec, userId[r]))
    /\ di' = [di EXCEPT ![r] = @ + 1]
    /\ mpc' = [mpc EXCEPT ![r] = "decision"]
    /\ uuid' = [uuid EXCEPT ![r] = ""]
    /\ vector' = [vector EXCEPT ![r] = <<>>]
    /\ UNCHANGED <<procVars, resp, chat, opsVars, userId, extracted, existing, decisions>>

\* await vectorService.insert([{ id, values: vector, metadata }], userId)
InsertFact(r) ==
    /\ mpc[r] = "insert"
    /\ LET rec == [id |-> uuid[r], values |-> vector[r],
                   metadata |-> MemoryMetadata(Decision(r).fact)] IN
         /\ ~DimensionError(rec.values)
         /\ Apply(InsertOneTx(rec, userId[r]))
    /\ di' = [di EXCEPT ![r] = @ + 1]
    /\ mpc' = [mpc EXCEPT ![r] = "decision"]
    /\ uuid' = [uuid EXCEPT ![r] = ""]
    /\ vector' = [vector EXCEPT ![r] = <<>>]
    /\ UNCHANGED <<procVars, resp, chat, opsVars, userId, extracted, existing, decisions>>

\* The for-loop is over: processMemories returns.
ReturnMemory(r) ==
    /\ mpc[r] = "decision" /\ di[r] > Len(decisions[r])
    /\ mpc' = [mpc EXCEPT ![r] = "returned"]
    /\ UNCHANGED <<dbVars, procVars, resp, chat, opsVars, userId, extracted, existing, decisions, di, uuid, vector>>

\* processMemories without its try/catch: the rejection reaches the caller.
Rethrow(r) ==
    /\ \/ mpc[r] \in {"extract", "embed", "query", "resolve", "embedFact", "insert"}
       \/ InLoop(r) /\ Decision(r).action \in {"add", "replace"}
    /\ mpc' = [mpc EXCEPT ![r] = "raised"]
    /\ UNCHANGED <<dbVars, procVars, resp, chat, opsVars, userId, extracted, existing, decisions, di, uuid, vector>>

\* A catch that undoes the run: the records the earlier decisions inserted
\* are deleted again.
ThrowUndo(r) ==
    /\ \/ mpc[r] \in {"extract", "embed", "query", "resolve", "embedFact", "insert"}
       \/ InLoop(r) /\ Decision(r).action \in {"add", "replace"}
    /\ mpc' = [mpc EXCEPT ![r] = "failed"]
    /\ vectors' = [id \in DOMAIN vectors \ Range(UUIDs) |-> vectors[id]]
    /\ users_vectors' = { l \in users_vectors : l[2] \in DOMAIN vectors' }
    /\ UNCHANGED <<memory_updates, procVars, resp, chat, opsVars, userId, extracted, existing, decisions, di, uuid, vector>>

\* The call processMemories awaits rejects (a model, the embedding service or
\* the store fails): catch (error) { logger.error(...) }, nothing is undone.
Throw(r) ==
    /\ \/ mpc[r] \in {"extract", "embed", "query", "resolve", "embedFact", "insert"}
       \/ InLoop(r) /\ Decision(r).action \in {"add", "replace"}
    /\ mpc' = [mpc EXCEPT ![r] = "failed"]
    /\ UNCHANGED <<dbVars, procVars, resp, chat, opsVars, userId, extracted, existing, decisions, di, uuid, vector>>

MemoryPipeline(r) ==
    \/ StartMemory(r)
    \/ Extract(r)
    \/ EmbedMemories(r)
    \/ Retrieve(r)
    \/ Resolve(r)
    \/ Ignore(r)
    \/ ReplaceDelete(r)
    \/ EmbedFact(r)
    \/ InsertFact(r)
    \/ ReturnMemory(r)
    \/ Throw(r)

\* What the models return in the turns that overlap: one fact or none, and
\* at most one decision about it.
RaceExtractions == {<<>>, <<"f1">>}
RaceResolutions ==
    {<<>>} \cup { <<d>> : d \in { x \in Decisions : x.fact = "f1" /\ x.reason = NoReason } }

\* ------------------------------------------------------- chat completions

\* What mistralEmbed may return for the last user message.
ChatEmbeddings == { <<1, 0, 0>>, <<0, 1, 0>> }

\* m.score > 0.65, the score being 1 - (x <=> q): cosine > 13/20, compared
\* without the roots; false when the score is not a number.
Relevant(q, x) ==
    /\ ~IsNaN(q, x)
    /\ Dot(q, x) > 0
    /\ 400 * Dot(q, x) * Dot(q, x) > 169 * Norm2(q) * Norm2(x)

\* results.matches.filter(m => m.score > 0.65).map(m => m.metadata?.content)
\*                .filter(Boolean), for the matches s of a query q.
RECURSIVE RelevantContents(_, _)
RelevantContents(q, s) ==
    IF s = <<>> THEN <<>>
    ELSE LET c == Content(vectors[Head(s)].metadata) IN
         IF Relevant(q, vectors[Head(s)].values) /\ c # ""
           THEN <<c>> \o RelevantContents(q, Tail(s))
           ELSE RelevantContents(q, Tail(s))

\* userId && lastUserMessage
WithMemory(c) == Truthy(c.userId) /\ c.message

\* POST /v1/chat/completions arrives and passes validation; without
\* MISTRAL_API_KEY it answers 500 at once.
ChatRequest(r) ==
    /\ chat[r].pc = "idle"
    /\ \E u \in Users \cup {NoUser}, m \in BOOLEAN, st \in BOOLEAN, apiKey \in BOOLEAN :
         LET c == [NoChat EXCEPT !.userId = u, !.message = m, !.stream = st] IN
         chat' = [chat EXCEPT ![r] =
                    IF ~apiKey THEN [c EXCEPT !.pc = "responded", !.status = 500, !.body = "error"]
                    ELSE [c EXCEPT !.pc = IF WithMemory(c) THEN "retrieve" ELSE "dispatch"]]
    /\ UNCHANGED <<opsVars, dbVars, procVars, resp, memVars>>

\* RAG Step 1: Retrieval: embed the message, query scoped to the user.
ChatRetrieve(r) ==
    /\ chat[r].pc = "retrieve"
    /\ \E q \in ChatEmbeddings :
         \E s \in TopK(Candidates(chat[r].userId), q, RetrieveTopK) :
            chat' = [chat EXCEPT ![r].relevantMemories = RelevantContents(q, s),
                                 ![r].pc = "dispatch"]
    /\ UNCHANGED <<opsVars, dbVars, procVars, resp, memVars>>

\* A retrieval whose error reaches the handler's outer catch: the request
\* is answered 500 and nothing is dispatched.
ChatRetrieveAborts(r) ==
    /\ chat[r].pc = "retrieve"
    /\ chat' = [chat EXCEPT ![r] = [@ EXCEPT !.pc = "responded", !.retrievalFailed = TRUE,
                                             !.status = 500, !.body = "error"]]
    /\ UNCHANGED <<opsVars, dbVars, procVars, resp, memVars>>

\* catch (error) { logger.error("[RAG] Retrieval failed:", error) }: the
\* handler continues without memories.
ChatRetrieveFails(r) ==
    /\ chat[r].pc = "retrieve"
    /\ chat' = [chat EXCEPT ![r].pc = "dispatch", ![r].retrievalFailed = TRUE]
    /\ UNCHANGED <<opsVars, dbVars, procVars, resp, memVars>>

\* A dispatch that does not look at the header.
ChatDispatchAlways(r) ==
    /\ chat[r].pc = "dispatch"
    /\ chat' = [chat EXCEPT ![r].pc = "generate"]
    /\ mpc' = [mpc EXCEPT ![r] = "extract"]
    /\ userId' = [userId EXCEPT ![r] = chat[r].userId]
    /\ UNCHANGED <<opsVars, dbVars, procVars, resp, extracted, existing, decisions, di, uuid, vector>>

\* Trigger Memory Formation in Background: processMemories is called and
\* not awaited, when there is a user and a user message.
ChatDispatch(r) ==
    /\ chat[r].pc = "dispatch"
    /\ chat' = [chat EXCEPT ![r].pc = "generate"]
    /\ IF WithMemory(chat[r])
         THEN /\ mpc' = [mpc EXCEPT ![r] = "extract"]
              /\ userId' = [userId EXCEPT ![r] = chat[r].userId]
         ELSE UNCHANGED <<mpc, userId>>
    /\ UNCHANGED <<opsVars, dbVars, procVars, resp, extracted, existing, decisions, di, uuid, vector>>

\* The body of a successful answer: the SSE stream, or the completion with
\* memories: relevantMemories.
Completion(c) ==
    IF c.stream THEN [c EXCEPT !.pc = "responded", !.status = 200, !.body = "stream"]
    ELSE [c EXCEPT !.pc = "responded", !.status = 200, !.body = "completion",
                   !.memories = c.relevantMemories]

\* A handler that awaits processMemories before it answers and reports its
\* failure.
ChatRespondAwaited(r) ==
    /\ chat[r].pc = "generate"
    /\ mpc[r] \in {"idle", "returned", "failed"}
    /\ chat' = [chat EXCEPT ![r] =
                  IF mpc[r] = "failed"
                    THEN [@ EXCEPT !.pc = "responded", !.status = 500, !.body = "error"]
                    ELSE Completion(@)]
    /\ UNCHANGED <<opsVars, dbVars, procVars, resp, memVars>>

\* A handler that retrieves the memories when it answers, after the
\* dispatch, rather than before it.
ChatRespondFresh(r) ==
    /\ chat[r].pc = "generate"
    /\ \E q \in ChatEmbeddings :
         \E s \in TopK(Candidates(chat[r].userId), q, RetrieveTopK) :
            chat' = [chat EXCEPT ![r] =
                       Completion([chat[r] EXCEPT !.relevantMemories =
                                      IF WithMemory(chat[r]) THEN RelevantContents(q, s) ELSE <<>>])]
    /\ UNCHANGED <<opsVars, dbVars, procVars, resp, memVars>>

\* streamText / generateText succeeded: the handler answers.
ChatRespond(r) ==
    /\ chat[r].pc = "generate"
    /\ chat' = [chat EXCEPT ![r] = Completion(@)]
    /\ UNCHANGED <<opsVars, dbVars, procVars, resp, memVars>>

\* generateText rejected: return c.json({ error }, 500).
ChatGenerateFails(r) ==
    /\ chat[r].pc = "generate" /\ ~chat[r].stream
    /\ chat' = [chat EXCEPT ![r] = [@ EXCEPT !.pc = "responded", !.status = 500, !.body = "error"]]
    /\ UNCHANGED <<opsVars, dbVars, procVars, resp, memVars>>

\* POST /v1/chat/completions, await by await.
ChatHandler(r) ==
    \/ ChatRequest(r)
    \/ ChatRetrieve(r)
    \/ ChatRetrieveFails(r)
    \/ ChatDispatch(r)
    \/ ChatRespond(r)
    \/ ChatGenerateFails(r)

\* processMemories as the turn's handler dispatched it.
DispatchedPipeline(r) ==
    \/ ExtractOf(r, RaceExtractions)
    \/ EmbedMemories(r)
    \/ Retrieve(r)
    \/ ResolveOf(r, RaceResolutions)
    \/ Ignore(r)
    \/ ReplaceDelete(r)
    \/ EmbedFact(r)
    \/ InsertFact(r)
    \/ ReturnMemory(r)
    \/ Throw(r)

\* ------------------------------------------------------------------ initDb

\* export async function initDb(retries = 5, delay = 1000)
DefaultRetries == 5
\* The error codes a failed statement may carry.
ErrorCodes == {"57P03", "ECONNREFUSED", "other"}
\* code === "57P03" || code === "ECONNREFUSED"
Retryable(code) == code \in {"57P03", "ECONNREFUSED"}

\* initDb is called with 1..5 retries (every caller takes the default); the
\* loop `for (let i = 0; i < retries; i++)` is entered when 0 < retries.
InitDbCall ==
    /\ boot.pc = "idle"
    /\ \E n \in 1..DefaultRetries :
         boot' = [NoBoot EXCEPT !.retries = n, !.pc = IF 0 < n THEN "attempt" ELSE "schema"]
    /\ UNCHANGED <<dbVars, procVars, resp, memVars, chat, mon>>

\* await sql`CREATE EXTENSION IF NOT EXISTS vector` succeeds: break.
EnableExtension ==
    /\ boot.pc = "attempt"
    /\ boot' = [boot EXCEPT !.attempts = @ + 1, !.extension = TRUE, !.pc = "schema"]
    /\ UNCHANGED <<dbVars, procVars, resp, memVars, chat, mon>>

\* A catch that waits and retries whatever the error code is.
EnableExtensionRetriesAll ==
    /\ boot.pc = "attempt"
    /\ \E code \in ErrorCodes :
         boot' = [boot EXCEPT !.attempts = @ + 1, !.code = code,
                              !.pc = IF boot.i = boot.retries - 1 THEN "exited" ELSE "delay"]
    /\ UNCHANGED <<dbVars, procVars, resp, memVars, chat, mon>>

\* The statement rejects: on the final attempt process.exit(1); otherwise
\* wait and continue on 57P03 or ECONNREFUSED, and throw on any other code.
EnableExtensionFails ==
    /\ boot.pc = "attempt"
    /\ \E code \in ErrorCodes :
         boot' = [boot EXCEPT !.attempts = @ + 1, !.code = code,
                              !.pc = IF boot.i = boot.retries - 1 THEN "exited"
                                     ELSE IF Retryable(code) THEN "delay"
                                     ELSE "thrown"]
    /\ UNCHANGED <<dbVars, procVars, resp, memVars, chat, mon>>

\* await new Promise((r) => setTimeout(r, delay)); continue
Delay ==
    /\ boot.pc = "delay"
    /\ boot' = [boot EXCEPT !.i = @ + 1,
                            !.pc = IF boot.i + 1 < boot.retries THEN "attempt" ELSE "schema"]
    /\ UNCHANGED <<dbVars, procVars, resp, memVars, chat, mon>>

\* await sql.unsafe(`CREATE TABLE IF NOT EXISTS ...`) succeeds.
CreateTables ==
    /\ boot.pc = "schema"
    /\ boot' = [boot EXCEPT !.tables = TRUE, !.pc = "done"]
    /\ UNCHANGED <<dbVars, procVars, resp, memVars, chat, mon>>

\* The schema statement rejects: logger.error(...); process.exit(1).
CreateTablesFails ==
    /\ boot.pc = "schema"
    /\ boot' = [boot EXCEPT !.pc = "exited"]
    /\ UNCHANGED <<dbVars, procVars, resp, memVars, chat, mon>>

InitDb ==
    \/ InitDbCall
    \/ EnableExtension
    \/ EnableExtensionFails
    \/ Delay
    \/ CreateTables
    \/ CreateTablesFails

\* ------------------------------------------------------ the deployment monitor

\* The check runs a commit may have, by status and conclusion; a run that
\* has not completed has the conclusion null.
CheckRuns ==
    { [status |-> "in_progress", conclusion |-> "null"],
      Succeeded,
      [status |-> "completed", conclusion |-> "failure"] }
\* grep -o '"conclusion": "[^"]*"' | grep -v success | grep -v neutral | grep -v skipped:
\* null is not a quoted string and matches nothing.
FAILURES(json) ==
    { r \in json : r.conclusion # "null" /\ r.conclusion \notin {"success", "neutral", "skipped"} }
\* grep -o '"status": "[^"]*"' | grep -v completed
IN_PROGRESS(json) == { r \in json : r.status # "completed" }
\* The position of a commit on the branch.
CommitIndex(c) == CHOOSE k \in 1..Len(Commits) : Commits[k] = c

\* The script starts (or systemd starts it again after a self-update):
\* FIRST_RUN=true; GITHUB_TOKEN is set or not.
MonitorStart ==
    /\ mon.pc \in {"idle", "exited"}
    /\ \E token \in BOOLEAN :
         /\ mon.pc = "exited" => token = mon.token
         /\ mon' = [mon EXCEPT !.pc = "fetch", !.token = token, !.firstRun = TRUE]
    /\ UNCHANGED <<dbVars, procVars, resp, memVars, chat, boot>>

\* Someone pushes the next commit to the branch; it has no check run yet.
Push ==
    /\ mon.pc # "idle"
    /\ CommitIndex(mon.origin) < Len(Commits)
    /\ mon' = [mon EXCEPT !.origin = Commits[CommitIndex(mon.origin) + 1]]
    /\ UNCHANGED <<dbVars, procVars, resp, memVars, chat, boot>>

\* CI creates a check run for the head of the branch.
CheckRunStarts ==
    /\ mon.pc # "idle"
    /\ mon.origin # Commits[1]
    /\ mon' = [mon EXCEPT !.checks[mon.origin] = @ \cup {[status |-> "in_progress", conclusion |-> "null"]}]
    /\ mon'.checks # mon.checks
    /\ UNCHANGED <<dbVars, procVars, resp, memVars, chat, boot>>

\* The running check runs of a commit complete, in success or in failure.
CheckRunCompletes ==
    /\ \E c \in Range(Commits), r \in CheckRuns :
         /\ IN_PROGRESS(mon.checks[c]) # {}
         /\ r.status = "completed"
         /\ mon' = [mon EXCEPT !.checks[c] = (@ \ IN_PROGRESS(@)) \cup {r}]
    /\ UNCHANGED <<dbVars, procVars, resp, memVars, chat, boot>>

\* git fetch origin "$BRANCH"; LOCAL, REMOTE; the test
\* [ "$LOCAL" != "$REMOTE" ] || [ "$FIRST_RUN" = true ]; otherwise sleep. A
\* fetch that fails leaves origin/$BRANCH where it was.
Fetch ==
    /\ mon.pc = "fetch"
    /\ \E remote \in {mon.origin, mon.remote} :
         mon' = [mon EXCEPT !.remote = remote,
                            !.pc = IF mon.local # remote \/ mon.firstRun THEN "check" ELSE "fetch"]
    /\ UNCHANGED <<dbVars, procVars, resp, memVars, chat, boot>>

\* SHOULD_DEPLOY: true without GITHUB_TOKEN; with it, curl asks for the
\* check runs of $REMOTE (a failed request prints nothing) and the two greps
\* decide: failures skip, in progress waits, else "CI status appears green".
\* A poll that does not deploy ends with FIRST_RUN=false.
CheckCI ==
    /\ mon.pc = "check"
    /\ IF ~mon.token
         THEN mon' = [mon EXCEPT !.answer = "unchecked", !.pc = "deploy"]
         ELSE \E ok \in BOOLEAN :
                LET json == IF ok THEN mon.checks[mon.remote] ELSE {}
                    answer == IF FAILURES(json) # {} THEN "failure"
                              ELSE IF IN_PROGRESS(json) # {} THEN "in_progress"
                              ELSE "green" IN
                mon' = [mon EXCEPT !.curlOk = ok, !.answer = answer,
                                   !.pc = IF answer = "green" THEN "deploy" ELSE "fetch",
                                   !.firstRun = IF answer = "green" THEN @ ELSE FALSE]
    /\ UNCHANGED <<dbVars, procVars, resp, memVars, chat, boot>>

\* git reset --hard "origin/$BRANCH": HEAD moves to the fetched commit; when
\* the script itself changed the monitor exits 0, else it goes on to docker
\* compose. A reset that fails ends the poll.
ResetHard ==
    /\ mon.pc = "deploy"
    /\ \/ \E selfUpdate \in BOOLEAN :
            /\ selfUpdate => mon.local # mon.remote
            /\ mon' = [mon EXCEPT !.local = mon.remote, !.pulled = @ \cup {mon.remote},
                                  !.pc = IF selfUpdate THEN "exited" ELSE "compose"]
       \/ mon' = [mon EXCEPT !.firstRun = FALSE, !.pc = "fetch"]
    /\ UNCHANGED <<dbVars, procVars, resp, memVars, chat, boot>>

\* docker compose up -d --build --remove-orphans; FIRST_RUN=false; sleep.
ComposeUp ==
    /\ mon.pc = "compose"
    /\ mon' = [mon EXCEPT !.restarted = @ \cup {mon.local}, !.firstRun = FALSE, !.pc = "fetch"]
    /\ UNCHANGED <<dbVars, procVars, resp, memVars, chat, boot>>

\* The monitor and the repository it follows.
DeployMonitor ==
    \/ MonitorStart
    \/ Push
    \/ CheckRunStarts
    \/ CheckRunCompletes
    \/ Fetch
    \/ CheckCI
    \/ ResetHard
    \/ ComposeUp

\* -------------------------------------------------------------- the store

\* POST /insert, statement by statement.
InsertHandler(p) ==
    \/ BeginInsert(p)
    \/ InsertVector(p)
    \/ InsertLink(p)
    \/ CommitInsert(p)

\* POST /upsert, statement by statement.
UpsertHandler(p) ==
    \/ BeginUpsert(p)
    \/ UpsertVector(p)
    \/ UpsertLink(p)
    \/ CommitUpsert(p)

\* POST /delete-memory, statement by statement.
DeleteMemoryHandler(p) ==
    \/ BeginDeleteMemory(p)
    \/ DeleteLink(p)
    \/ InsertAudit(p)
    \/ CommitDeleteMemory(p)

\* Records and links: one insert or upsert transaction at a time, with
\* queries, raw fetches and hard deletes running beside it.
Next ==
    \/ InsertHandler("p1")
    \/ UpsertHandler("p1")
    \/ Fail("p1")
    \/ Query("p2")
    \/ GetByIds("p2")
    \/ DeleteByIds("p2")

Spec == Init /\ [][Next]_vars

\* Memories: one insert or delete-memory transaction at a time, with queries
\* and hard deletes running beside it.
NextMemory ==
    \/ InsertHandler("p1")
    \/ DeleteMemoryHandler("p1")
    \/ Fail("p1")
    \/ Query("p2")
    \/ DeleteByIds("p2")

SpecMemory == Init /\ [][NextMemory]_vars

\* The whole store: one writing transaction at a time (insert, upsert or
\* delete-memory), with queries and hard deletes running beside it.
NextStore ==
    \/ InsertHandler("p1")
    \/ UpsertHandler("p1")
    \/ DeleteMemoryHandler("p1")
    \/ Fail("p1")
    \/ Query("p2")
    \/ DeleteByIds("p2")

SpecStore == Init /\ [][NextStore]_vars

\* Two /insert calls in flight at once.
NextInsertRace ==
    \/ InsertHandler("p1")
    \/ InsertHandler("p2")
    \/ Fail("p1")
    \/ Fail("p2")

SpecInsertRace == Init /\ [][NextInsertRace]_vars

\* Two /upsert calls in flight at once.
NextUpsertRace ==
    \/ UpsertHandler("p1")
    \/ UpsertHandler("p2")
    \/ Fail("p1")
    \/ Fail("p2")

SpecUpsertRace == Init /\ [][NextUpsertRace]_vars

\* Forgetting: one insert or delete-memory transaction at a time, with
\* queries, raw fetches and hard deletes running beside it.
NextAudit ==
    \/ InsertHandler("p1")
    \/ DeleteMemoryHandler("p1")
    \/ Fail("p1")
    \/ Query("p2")
    \/ GetByIds("p2")
    \/ DeleteByIds("p2")

SpecAudit == Init /\ [][NextAudit]_vars

\* POST /query over the ranked records.
RankQuery(p) == QueryOf(p, {"user_1", NoUser}, RankQueries, RankTopKs)

\* Queries against a store that holds any records of dimension D under the
\* ranked ids, any of them but the last linked to user_1.
InitQuery ==
    /\ \E S \in SUBSET { RankIds[i] : i \in 1..Len(RankIds) } :
         vectors \in [S -> { [values |-> x, metadata |-> EmptyObject] : x \in RankValues }]
    /\ users_vectors \in SUBSET ({"user_1"} \X (DOMAIN vectors \ {RankIds[Len(RankIds)]}))
    /\ memory_updates = <<>>
    /\ InitHandlers

NextQuery == RankQuery("p2")

SpecQuery == InitQuery /\ [][NextQuery]_vars

\* One turn's pipeline run against a store that holds one memory, linked to
\* any of the users.
InitPipeline ==
    /\ vectors = ("a" :> SeedRow)
    /\ users_vectors \in SUBSET (Users \X {"a"})
    /\ memory_updates = <<>>
    /\ InitHandlers

NextPipeline == MemoryPipeline("r1")

SpecPipeline == InitPipeline /\ [][NextPipeline]_vars

\* processMemories of one of two turns of user_1.
RacePipeline(r) ==
    \/ StartMemoryOf(r, {"user_1"})
    \/ ExtractOf(r, RaceExtractions)
    \/ EmbedMemories(r)
    \/ Retrieve(r)
    \/ ResolveOf(r, RaceResolutions)
    \/ Ignore(r)
    \/ ReplaceDelete(r)
    \/ EmbedFact(r)
    \/ InsertFact(r)
    \/ ReturnMemory(r)
    \/ Throw(r)

\* The pipeline runs of two turns of the same user, overlapping in time.
NextPipelineRace == RacePipeline("r1") \/ RacePipeline("r2")

SpecPipelineRace == InitPipeline /\ [][NextPipelineRace]_vars

\* An id no record is stored under.
Ghost == "ghost"
\* Decisions whose target_id is absent, the stored memory (whoever is linked
\* to it) or an id that does not exist.
TargetDecisions ==
    { d \in [action : {"add", "replace", "ignore"}, target_id : {NoTarget, "a", Ghost},
             reason : {NoReason}, fact : Facts] :
        d.action = "ignore" => d.target_id = NoTarget }
TargetResolutions == UNION { [1..n -> TargetDecisions] : n \in 0..MaxDecisions }

\* processMemories of one turn, the resolver naming any of these targets.
TargetPipeline(r) ==
    \/ StartMemory(r)
    \/ Extract(r)
    \/ EmbedMemories(r)
    \/ Retrieve(r)
    \/ ResolveOf(r, TargetResolutions)
    \/ Ignore(r)
    \/ ReplaceDelete(r)
    \/ EmbedFact(r)
    \/ InsertFact(r)
    \/ ReturnMemory(r)
    \/ Throw(r)

NextTarget == TargetPipeline("r1")

SpecTarget == InitPipeline /\ [][NextTarget]_vars

\* The fact the user states in the turn of run r: r1 is the older turn, r2
\* the newer one.
TurnFact(r) == IF r = "r1" THEN "f1" ELSE "f2"
\* The targets a resolver names that keeps to the memories it was shown.
RetrievedTargets(r) == {NoTarget} \cup { existing[r][i].id : i \in 1..Len(existing[r]) }
TurnResolutions(r) ==
    {<<>>} \cup
    { <<d>> : d \in { x \in [action : {"add", "replace", "ignore"}, target_id : RetrievedTargets(r),
                              reason : {NoReason}, fact : {TurnFact(r)}] :
                        x.action = "ignore" => x.target_id = NoTarget } }

\* processMemories of one of two turns of user_1; the handler of the newer
\* turn dispatches its run after the older turn's run was dispatched.
TurnPipeline(r) ==
    \/ (r = "r2" => mpc["r1"] # "idle") /\ StartMemoryOf(r, {"user_1"})
    \/ ExtractOf(r, {<<TurnFact(r)>>})
    \/ EmbedMemories(r)
    \/ Retrieve(r)
    \/ ResolveOf(r, TurnResolutions(r))
    \/ Ignore(r)
    \/ ReplaceDelete(r)
    \/ EmbedFact(r)
    \/ InsertFact(r)
    \/ ReturnMemory(r)
    \/ Throw(r)

\* An older and a newer turn of the same user, their runs overlapping.
NextTurns == TurnPipeline("r1") \/ TurnPipeline("r2")

SpecTurns == InitPipeline /\ [][NextTurns]_vars

\* The start of the vector service: initDb against a database that may not
\* be ready.
NextInitDb == InitDb

SpecInitDb == Init /\ [][NextInitDb]_vars

\* The deployment monitor polling a branch that receives commits while CI
\* runs on them.
NextMonitor == DeployMonitor

SpecMonitor == Init /\ [][NextMonitor]_vars

\* One turn: the chat-completions handler and the pipeline run it
\* dispatches, against a store that holds one memory.
NextChat == ChatHandler("r1") \/ DispatchedPipeline("r1")

SpecChat == InitPipeline /\ [][NextChat]_vars

\* ------------------------------------------------------------------- claims

\* The response the last step sent, by handler and status.
Answered(op, status) == resp.op = op /\ resp.status = status

\* C1: a query given a userId returns only ids linked to that user at query
\* time; a query given no userId ranks all stored records, linked or not, so
\* with topK at least their number it returns every one of them.
C1_QueryScopedToUser ==
    Answered("query", 200) =>
      IF resp.req.userId \in Users
        THEN \A id \in Range(resp.ids) : <<resp.req.userId, id>> \in users_vectors
        ELSE /\ Range(resp.ids) \subseteq DOMAIN vectors
             /\ Len(resp.ids) = Min(resp.req.topK, Cardinality(DOMAIN vectors))

\* A scoped query answered with the user's one linked record while the store
\* holds a second record that user has no link to.
C1_Witness ==
    /\ Answered("query", 200)
    /\ resp.req.userId = "user_1" /\ resp.req.topK = 5
    /\ resp.ids = <<"a">>
    /\ Cardinality(DOMAIN vectors) = 2

\* C2: a successful deleteMemory(userId, vectorId) changes no record and
\* removes no link other than (userId, vectorId).
C2_DeleteMemoryRemovesOnlyLink ==
    [][ (resp'.op = "delete-memory" /\ resp'.status = 200) =>
          /\ vectors' = vectors
          /\ users_vectors' = users_vectors \ {<<resp'.req.userId, resp'.req.vectorId>>} ]_vars

\* user_1's link to a shared record was deleted: the record and user_2's link
\* to it are still there.
C2_Witness ==
    /\ Answered("delete-memory", 200)
    /\ resp.req.userId = "user_1" /\ resp.req.vectorId = "a"
    /\ resp.tx.unlinks = {<<"user_1", "a">>}
    /\ "a" \in DOMAIN vectors
    /\ users_vectors = {<<"user_2", "a">>}

C4_DeleteMissingLink ==
    [][ ( /\ resp'.op = "delete-memory" /\ resp'.status = 200
          /\ <<resp'.req.userId, resp'.req.vectorId>> \notin users_vectors ) =>
          /\ resp'.deleted = FALSE
          /\ UNCHANGED dbVars ]_vars

\* What the handler does on a link that does not exist: nothing is written.
C4_MissingLinkWritesNothing ==
    [][ ( /\ resp'.op = "delete-memory" /\ resp'.status = 200
          /\ <<resp'.req.userId, resp'.req.vectorId>> \notin users_vectors ) =>
          UNCHANGED dbVars ]_vars

\* A deleteMemory of a link that is not there has answered.
C4_Witness ==
    /\ Answered("delete-memory", 200)
    /\ resp.tx.unlinks = {} /\ resp.tx.audits = <<>>
    /\ resp.req.vectorId = "a" /\ "a" \in DOMAIN vectors

\* C5: a link leaves the table, its record staying, only in a step that also
\* appends the audit row of that link, and an audit row is appended only in a
\* step that removes its link; a failed deleteMemory changes no table.
C5_UnlinkAndAuditTogether ==
    [][ /\ \A l \in users_vectors \ users_vectors' :
             l[2] \in DOMAIN vectors' =>
               /\ Len(memory_updates') = Len(memory_updates) + 1
               /\ memory_updates'[Len(memory_updates')].user_id = l[1]
               /\ memory_updates'[Len(memory_updates')].old_vector_id = l[2]
        /\ memory_updates' # memory_updates =>
             /\ Len(memory_updates') = Len(memory_updates) + 1
             /\ SubSeq(memory_updates', 1, Len(memory_updates)) = memory_updates
             /\ LET a == memory_updates'[Len(memory_updates')] IN
                  <<a.user_id, a.old_vector_id>> \in users_vectors \ users_vectors'
        /\ (resp'.op = "delete-memory" /\ resp'.status = 500) => UNCHANGED dbVars ]_vars

\* A deleteMemory failed after its DELETE and before its audit INSERT: the
\* link is still there and no audit row is.
C5_Witness ==
    /\ Answered("delete-memory", 500)
    /\ resp.tx.unlinks # {} /\ resp.tx.audits = <<>>
    /\ resp.tx.unlinks \subseteq users_vectors
    /\ memory_updates = <<>>

\* Is a memory with this content stored and linked to the user.
Remembers(u, fact) ==
    \E id \in DOMAIN vectors :
        Content(vectors[id].metadata) = fact /\ <<u, id>> \in users_vectors

\* C6: when a pipeline run is over, however it ended, every memory it
\* unlinked and audited for a 'replace' decision has the fact of such a
\* decision stored and linked to the user in its place.
C6_ReplaceInOneScope ==
    \A r \in Runs :
        mpc[r] \in {"returned", "failed"} =>
          \A i \in 1..Len(memory_updates) :
             memory_updates[i].user_id = userId[r] =>
               \E k \in 1..Len(decisions[r]) :
                  /\ NeedsDelete(decisions[r][k])
                  /\ decisions[r][k].target_id = memory_updates[i].old_vector_id
                  /\ Remembers(userId[r], decisions[r][k].fact)

\* A run that replaced memory "a" of user_1 by the fact f1 and returned.
C6_Witness ==
    /\ mpc["r1"] = "returned" /\ userId["r1"] = "user_1"
    /\ Len(memory_updates) = 1
    /\ memory_updates[1].old_vector_id = "a"
    /\ <<"user_1", "a">> \notin users_vectors
    /\ Remembers("user_1", "f1")

\* C7: a successful insert leaves every record that existed as it was, and
\* answers with exactly the ids of the records it created.
C7_InsertCreatesOnlyAbsent ==
    [][ (resp'.op = "insert" /\ resp'.status = 200) =>
          /\ \A id \in DOMAIN vectors : id \in DOMAIN vectors' /\ vectors'[id] = vectors[id]
          /\ Range(resp'.ids) = DOMAIN vectors' \ DOMAIN vectors ]_vars

\* What the handler does for the ids that JavaScript takes as true: it answers
\* with exactly those it created, and changes no record that existed.
C7_TruthyCreatedIds ==
    [][ (resp'.op = "insert" /\ resp'.status = 200) =>
          /\ \A id \in DOMAIN vectors : id \in DOMAIN vectors' /\ vectors'[id] = vectors[id]
          /\ Range(resp'.ids) = { id \in DOMAIN vectors' \ DOMAIN vectors : Truthy(id) } ]_vars

\* An insert of "a", which existed, and of a new record has answered: "a" is
\* not among the ids of the answer.
C7_Witness ==
    /\ Answered("insert", 200)
    /\ resp.req.ids = {"", "a"}
    /\ DOMAIN resp.tx.vecs = {""}
    /\ "a" \notin Range(resp.ids)

\* C8: after a successful insert or upsert given a userId, that user has a
\* link to every record id of the batch that is stored (a hard delete running
\* beside the call may have taken a record and its links away).
C8_LinkForEveryRecord ==
    (resp.op \in {"insert", "upsert"} /\ resp.status = 200 /\ resp.req.userId \in Users) =>
      \A id \in resp.req.ids \cap DOMAIN vectors : <<resp.req.userId, id>> \in users_vectors

\* What the handlers do: the link exists for every id of the batch that
\* JavaScript takes as true.
C8_LinkForTruthyIds ==
    (resp.op \in {"insert", "upsert"} /\ resp.status = 200 /\ resp.req.userId \in Users) =>
      \A id \in resp.req.ids \cap DOMAIN vectors :
         Truthy(id) => <<resp.req.userId, id>> \in users_vectors

\* A second user's insert of a record that existed created nothing and left
\* one record with two links.
C8_Witness ==
    /\ Answered("insert", 200)
    /\ resp.req.userId = "user_2" /\ resp.req.ids = {"a"}
    /\ resp.tx.vecs = EmptyFcn /\ resp.tx.links = {<<"user_2", "a">>}
    /\ users_vectors = {<<"user_1", "a">>, <<"user_2", "a">>}

\* C9: a successful upsert leaves every record it wrote with the values and
\* metadata last supplied for it, and answers with every id of the batch.
C9_UpsertReplaces ==
    [][ (resp'.op = "upsert" /\ resp'.status = 200) =>
          /\ \A id \in resp'.req.ids :
               id \in DOMAIN vectors' /\ vectors'[id] = resp'.tx.vecs[id]
          /\ Range(resp'.ids) = resp'.req.ids ]_vars

\* What the handler does: the records are written, and the answer holds the
\* ids of the batch that JavaScript takes as true.
C9_UpsertTruthyIds ==
    [][ (resp'.op = "upsert" /\ resp'.status = 200) =>
          /\ \A id \in resp'.req.ids :
               id \in DOMAIN vectors' /\ vectors'[id] = resp'.tx.vecs[id]
          /\ Range(resp'.ids) = { id \in resp'.req.ids : Truthy(id) } ]_vars

\* An upsert has replaced the values of a record that existed.
C9_Witness ==
    /\ Answered("upsert", 200)
    /\ resp.ids = <<"a">>
    /\ "a" \in DOMAIN resp.tx.vecs
    /\ vectors["a"].values = <<0, 1, 0>>
    /\ resp.tx.vecs["a"].values = <<0, 1, 0>>

\* C10: the tables change only in the step in which a handler answers 200;
\* an insert or upsert that fails answers 500 and leaves what its statements
\* wrote for the records before the failing one out of every table.
C10_BatchAllOrNothing ==
    [][ /\ (resp'.op \in {"insert", "upsert"} /\ resp'.status = 500) => UNCHANGED dbVars
        /\ ~UNCHANGED dbVars => resp'.status = 200
        /\ (resp'.op \in {"insert", "upsert"} /\ resp'.status = 200) =>
             /\ vectors' = resp'.tx.vecs @@ vectors
             /\ users_vectors' = users_vectors \cup resp'.tx.links ]_vars

\* An insert failed on the dimension of its second record after the INSERT
\* and the link of its first: neither the record nor the link is stored.
C10_Witness ==
    /\ Answered("insert", 500)
    /\ resp.error = "expected D dimensions"
    /\ DOMAIN resp.tx.vecs = {"a"} /\ resp.tx.links = {<<"user_1", "a">>}
    /\ "a" \notin DOMAIN vectors
    /\ users_vectors = {}

\* C11: every stored record, and every record an open transaction has
\* written, has an embedding of length D; an insert or upsert that meets an
\* embedding of another length answers 500 with pgvector's error, never 200.
C11_StoredDimension ==
    /\ \A id \in DOMAIN vectors : Len(vectors[id].values) = D
    /\ \A p \in Procs : \A id \in DOMAIN tx[p].vecs : Len(tx[p].vecs[id].values) = D
    /\ resp.error = "expected D dimensions" =>
         resp.op \in {"insert", "upsert"} /\ resp.status = 500 /\ resp.ids = <<>>

\* An upsert was refused for the dimension of its second record, after its
\* first had been written.
C11_Witness ==
    /\ Answered("upsert", 500)
    /\ resp.error = "expected D dimensions"
    /\ resp.tx.vecs # EmptyFcn
    /\ "a" \notin DOMAIN vectors

\* The candidates of the query the last step answered.
Asked == Candidates(resp.req.userId)
\* The embedding of a stored record.
ValuesOf(id) == vectors[id].values
\* Are the scores of x and y against q both numbers, the first at least the second.
ScoreGE(q, x, y) == ~IsNaN(q, x) /\ ~IsNaN(q, y) /\ CosGE(q, x, y)
\* Are they both numbers, the first strictly greater than the second.
ScoreGT(q, x, y) == ~IsNaN(q, x) /\ ~IsNaN(q, y) /\ ~CosGE(q, y, x)
\* The place of an id in ascending order.
IdRank(id) == CHOOSE i \in 1..Len(RankIds) : RankIds[i] = id

\* C12: a query whose embedding has a length other than D, or whose topK is
\* zero or negative, fails and returns no matches.
C12_QueryRejectsInvalid ==
    (resp.op = "query" /\ (DimensionError(resp.req.vector) \/ resp.req.topK <= 0)) =>
      resp.status = 500 /\ resp.ids = <<>>

\* What the handler does with such a query: it never returns a match; it
\* fails for a negative topK, and for a wrong length when topK is positive
\* and there is a candidate to compare with.
C12_InvalidReturnsNothing ==
    (resp.op = "query" /\ (DimensionError(resp.req.vector) \/ resp.req.topK <= 0)) =>
      /\ resp.ids = <<>>
      /\ resp.req.topK < 0 => resp.status = 500
      /\ (resp.req.topK > 0 /\ Asked # {}) => resp.status = 500

\* A query of the wrong length was refused.
C12_Witness ==
    /\ Answered("query", 500)
    /\ resp.req.vector = <<1, 0>> /\ resp.req.topK = 2
    /\ resp.error = "different vector dimensions"
    /\ Asked # {}

\* C13: the matches come by descending score, and those of equal score by
\* ascending id.
C13_TiesByAscendingId ==
    Answered("query", 200) =>
      \A i, j \in 1..Len(resp.ids) :
         i < j =>
           LET x == ValuesOf(resp.ids[i])  y == ValuesOf(resp.ids[j])  q == resp.req.vector IN
           /\ ScoreGE(q, x, y)
           /\ ScoreGE(q, y, x) => IdRank(resp.ids[i]) < IdRank(resp.ids[j])

\* A query answered with two records of the same direction and different
\* scale, which tie.
C13_Witness ==
    /\ Answered("query", 200)
    /\ resp.req.vector = <<1, 0, 0>>
    /\ Len(resp.ids) = 2
    /\ ValuesOf(resp.ids[1]) = <<1, 0, 0>> /\ ValuesOf(resp.ids[2]) = <<2, 0, 0>>

\* C14: a query with topK = k > 0 returns min(k, number of candidates)
\* matches, their scores are non-increasing, and no candidate left out has a
\* score strictly greater than a returned one.
C14_TopKByScore ==
    (Answered("query", 200) /\ resp.req.topK > 0) =>
      LET q == resp.req.vector IN
      /\ Len(resp.ids) = Min(resp.req.topK, Cardinality(Asked))
      /\ Range(resp.ids) \subseteq Asked
      /\ \A i, j \in 1..Len(resp.ids) :
            i < j => ScoreGE(q, ValuesOf(resp.ids[i]), ValuesOf(resp.ids[j]))
      /\ \A c \in Asked \ Range(resp.ids) : \A i \in 1..Len(resp.ids) :
            ~ScoreGT(q, ValuesOf(c), ValuesOf(resp.ids[i]))

\* What the handler does: the count is right and the matches whose score is
\* a number are in non-increasing order and ahead of every candidate left
\* out; the matches whose score is not a number (a zero vector on either
\* side) come last.
C14_TopKByDefinedScore ==
    (Answered("query", 200) /\ resp.req.topK > 0) =>
      LET q == resp.req.vector IN
      /\ Len(resp.ids) = Min(resp.req.topK, Cardinality(Asked))
      /\ Range(resp.ids) \subseteq Asked
      /\ \A i, j \in 1..Len(resp.ids) :
            i < j =>
              \/ IsNaN(q, ValuesOf(resp.ids[j]))
              \/ ScoreGE(q, ValuesOf(resp.ids[i]), ValuesOf(resp.ids[j]))
      /\ \A c \in Asked \ Range(resp.ids) : \A i \in 1..Len(resp.ids) :
            ~ScoreGT(q, ValuesOf(c), ValuesOf(resp.ids[i]))

\* A query with topK = 2 over three candidates returned the two best.
C14_Witness ==
    /\ Answered("query", 200)
    /\ resp.req.topK = 2 /\ resp.req.vector = <<1, 0, 0>>
    /\ Cardinality(Asked) = 3
    /\ Len(resp.ids) = 2
    /\ \E c \in Asked \ Range(resp.ids) : ScoreGT(resp.req.vector, ValuesOf(resp.ids[2]), ValuesOf(c))

\* C15: deleteByIds removes every existing record among the ids, with all
\* its links of all users, leaves every other record and link as it was,
\* returns exactly the ids that existed, and appends no audit record.
C15_DeleteByIdsCascades ==
    [][resp'.op = "deleteByIds" =>
         LET ids == resp'.req.ids
             existed == ids \cap DOMAIN vectors IN
         /\ resp'.status = 200
         /\ DOMAIN vectors' = DOMAIN vectors \ ids
         /\ \A i \in DOMAIN vectors' : vectors'[i] = vectors[i]
         /\ users_vectors' = { l \in users_vectors : l[2] \notin ids }
         /\ Range(resp'.ids) = existed
         /\ Len(resp'.ids) = Cardinality(existed)
         /\ memory_updates' = memory_updates]_vars

\* A hard delete of an existing and a missing id was answered, after a
\* memory was forgotten: the record and all its links are gone, the audit
\* record is still there.
C15_Witness ==
    /\ Answered("deleteByIds", 200)
    /\ resp.req.ids = {"", "a"}
    /\ resp.ids = <<"a">>
    /\ "a" \notin DOMAIN vectors
    /\ \A l \in users_vectors : l[2] # "a"
    /\ memory_updates # <<>>

\* The rows requests of the right dimension ask to store.
SuppliedRows == { Row(c) : c \in { x \in Contents : ~DimensionError(x.values) } }

\* What the commit of an insert does to the ids among `among` of its batch:
\* an id that has a record keeps it untouched and is not reported; an id that
\* has none gets the whole row this call wrote and is reported by it; the
\* caller's link exists afterwards. Records and links committed earlier stay.
InsertCommitSettles(among) ==
    /\ \A id \in DOMAIN vectors : id \in DOMAIN vectors' /\ vectors'[id] = vectors[id]
    /\ users_vectors \subseteq users_vectors'
    /\ (resp'.op = "insert" /\ resp'.status = 200) =>
         \A id \in resp'.req.ids \cap among :
            /\ id \in DOMAIN vectors'
            /\ vectors'[id] \in SuppliedRows
            /\ IF id \in DOMAIN vectors
                 THEN id \notin Range(resp'.ids)
                 ELSE /\ id \in DOMAIN resp'.tx.vecs
                      /\ vectors'[id] = resp'.tx.vecs[id]
                      /\ id \in Range(resp'.ids)
            /\ Truthy(resp'.req.userId) => <<resp'.req.userId, id>> \in users_vectors'

\* C16: of two concurrent inserts of the same new id, the record holds the
\* entire content of exactly one, exactly one call (the one that created the
\* record) reports the id in createdIds, and both callers' links exist once
\* both have completed.
C16_ConcurrentInsert == [][InsertCommitSettles(Ids)]_vars

\* The same over the ids that are not the empty string.
C16_ConcurrentInsertTruthy == [][InsertCommitSettles({ i \in Ids : Truthy(i) })]_vars

\* An insert of "a" by user_2 completed after the insert by user_1 created
\* the record, while the other handler has a transaction open: it wrote no
\* record, reports no id, and its link is there beside the first's.
C16_Witness ==
    /\ Answered("insert", 200)
    /\ resp.req.userId = "user_2" /\ resp.req.ids = {"a"}
    /\ resp.ids = <<>>
    /\ resp.tx.vecs = EmptyFcn /\ resp.tx.links = {<<"user_2", "a">>}
    /\ users_vectors = {<<"user_1", "a">>, <<"user_2", "a">>}
    /\ \E q \in Procs : InTxn(q)

\* C17: of two concurrent upserts of the same id, the record's embedding and
\* metadata come from the same call, the one whose transaction committed
\* last: a record changes only when an upsert that wrote it commits, and it
\* then becomes the whole row that call supplied.
C17_LastUpsertWins ==
    [][\A id \in DOMAIN vectors' :
          IF resp'.op = "upsert" /\ resp'.status = 200 /\ id \in resp'.req.ids
            THEN /\ id \in DOMAIN resp'.tx.vecs
                 /\ vectors'[id] = resp'.tx.vecs[id]
                 /\ vectors'[id] \in SuppliedRows
            ELSE id \in DOMAIN vectors /\ vectors'[id] = vectors[id]]_vars

\* An upsert of "a" by user_2 committed after one by user_1 had, while the
\* other handler has a transaction open: the record is the row it supplied.
C17_Witness ==
    /\ Answered("upsert", 200)
    /\ resp.req.userId = "user_2" /\ resp.req.ids = {"a"}
    /\ resp.ids = <<"a">>
    /\ <<"user_1", "a">> \in users_vectors
    /\ vectors["a"] = [values |-> <<0, 1, 0>>, metadata |-> EmptyObject]
    /\ resp.tx.vecs = ("a" :> vectors["a"])
    /\ \E q \in Procs : InTxn(q)

\* The places processMemories can be at, and those where it has completed.
PipelineStates ==
    {"idle", "extract", "embed", "query", "resolve", "decision", "embedFact", "insert",
     "returned", "failed"}
Terminal == {"returned", "failed"}
\* How far a run has come: its stage, then its decision, then the call of
\* the decision it is at.
StageRank(m) ==
    CASE m = "idle" -> 0 [] m = "extract" -> 1 [] m = "embed" -> 2 [] m = "query" -> 3
      [] m = "resolve" -> 4 [] m \in {"decision", "embedFact", "insert"} -> 5 [] OTHER -> 6
CallRank(m) == CASE m = "embedFact" -> 1 [] m = "insert" -> 2 [] OTHER -> 0
Progress(r) == StageRank(mpc[r]) * 1000 + di[r] * 10 + CallRank(mpc[r])

\* C18: a failure in any stage ends the run: processMemories completes
\* (the rejection is caught, never raised), a completed run takes no further
\* step and changes nothing, and every step moves the run strictly forward,
\* so no stage, decision or collaborator call is executed a second time.
C18_FailureEndsRun ==
    [][\A r \in Runs :
          /\ mpc'[r] \in PipelineStates
          /\ mpc[r] \in Terminal => mpc'[r] = mpc[r] /\ UNCHANGED <<dbVars, memVars>>
          /\ mpc'[r] = "failed" /\ mpc[r] # "failed" =>
               UNCHANGED <<dbVars, userId, extracted, existing, decisions, di, uuid, vector>>
          /\ mpc'[r] # mpc[r] \/ di'[r] # di[r] => Progress(r)' > Progress(r)]_vars

\* The resolution failed after the retrieval had returned a memory: the run
\* has completed with no decisions.
C18_Witness ==
    /\ mpc["r1"] = "failed"
    /\ extracted["r1"] # <<>>
    /\ existing["r1"] # <<>>
    /\ decisions["r1"] = <<>>

\* C19: when the extraction fails or returns an empty list the run ends at
\* once: it never reaches the embedding, the retrieval or the resolution, and
\* the three tables stay as they were.
C19_EmptyExtractionEnds ==
    [][\A r \in Runs :
          /\ mpc[r] = "extract" /\ mpc'[r] # "extract" =>
               IF extracted'[r] # <<>> /\ mpc'[r] # "failed"
                 THEN mpc'[r] = "embed"
                 ELSE /\ mpc'[r] \in Terminal
                      /\ UNCHANGED <<dbVars, existing, decisions, di, uuid, vector>>
          /\ mpc[r] \in Terminal /\ extracted[r] = <<>> => UNCHANGED <<dbVars, memVars>>
          /\ mpc'[r] \in {"embed", "query", "resolve", "decision", "embedFact", "insert"} =>
               extracted'[r] # <<>>]_vars

\* The extraction returned an empty list and the run has returned: nothing
\* was embedded, retrieved or decided and the store is as it was seeded.
C19_Witness ==
    /\ mpc["r1"] = "returned"
    /\ extracted["r1"] = <<>>
    /\ existing["r1"] = <<>> /\ decisions["r1"] = <<>> /\ vector["r1"] = <<>>
    /\ vectors = ("a" :> SeedRow)
    /\ memory_updates = <<>>

\* The positions among the first n decisions of run r that insert a record.
Adding(r, n) ==
    { j \in 1..Min(n, Len(decisions[r])) : decisions[r][j].action \in {"add", "replace"} }
\* Those that call deleteMemory.
Deleting(r, n) == { j \in 1..Min(n, Len(decisions[r])) : NeedsDelete(decisions[r][j]) }
\* The decisions of run r that have completed, and those that have started.
Done(r) == di[r] - 1
Started(r) == IF mpc[r] = "decision" THEN di[r] - 1 ELSE di[r]
\* The k-th smallest element of a set of numbers.
Kth(S, k) == CHOOSE j \in S : Cardinality({ i \in S : i <= j }) = k

\* The store holds the effects of the completed decisions of run r, in list
\* order, and of no decision that has not started: one record per completed
\* add or replace, the k-th of them under the k-th uuid with the fact of the
\* k-th such decision and a link to the run's user; and no more audit
\* records than deleteMemory calls of the decisions that have started.
EffectsInOrder(r) ==
    LET n == Cardinality(Adding(r, Done(r))) IN
    /\ DOMAIN vectors \ {"a"} = { UUIDs[k] : k \in 1..n }
    /\ \A k \in 1..n :
          /\ Content(vectors[UUIDs[k]].metadata) = decisions[r][Kth(Adding(r, Done(r)), k)].fact
          /\ <<userId[r], UUIDs[k]>> \in users_vectors
    /\ Len(memory_updates) <= Cardinality(Deleting(r, Started(r)))

\* C20: the decisions are committed one at a time in list order: at every
\* point, and so after a failure at decision i, the effects of decisions
\* 1..i-1 are in the store and remain, no later decision has any effect,
\* and only decision i may be partly applied.
C20_DecisionsInOrder ==
    [][/\ EffectsInOrder("r1")'
       /\ di'["r1"] \in {di["r1"], di["r1"] + 1}
       /\ \A id \in DOMAIN vectors : id \in DOMAIN vectors' /\ vectors'[id] = vectors[id]
       /\ Len(memory_updates') >= Len(memory_updates)
       /\ SubSeq(memory_updates', 1, Len(memory_updates)) = memory_updates
       /\ mpc["r1"] \in Terminal => UNCHANGED dbVars]_vars

\* The run failed at its second decision, a replace whose deleteMemory had
\* committed: the first decision's record is there, the second's is not.
C20_Witness ==
    /\ mpc["r1"] = "failed"
    /\ Len(decisions["r1"]) = 2 /\ di["r1"] = 2
    /\ decisions["r1"][1].action = "add"
    /\ NeedsDelete(decisions["r1"][2])
    /\ DOMAIN vectors = {"a", "uuid1"}
    /\ Len(memory_updates) = 1

\* C21: no step of a pipeline run removes or changes a stored record,
\* whatever the decisions are; a replaced memory's record is still there and
\* every other user keeps every candidate (record and link) they had.
C21_PipelineNeverHardDeletes ==
    [][/\ \A id \in DOMAIN vectors : id \in DOMAIN vectors' /\ vectors'[id] = vectors[id]
       /\ \A r \in Runs :
             (mpc[r] # "idle" /\ Progress(r)' # Progress(r)) =>
               \A u \in Users \ {userId[r]} :
                  /\ Candidates(u) \subseteq Candidates(u)'
                  /\ { l \in users_vectors' : l[1] = u } = { l \in users_vectors : l[1] = u }]_vars

\* The run of user_1 replaced the memory "a" that user_2 is linked to as
\* well: the link of user_1 is gone and audited, the record is there and
\* user_2 still retrieves it.
C21_Witness ==
    /\ mpc["r1"] = "returned" /\ userId["r1"] = "user_1"
    /\ \E j \in 1..Len(decisions["r1"]) : NeedsDelete(decisions["r1"][j])
    /\ memory_updates # <<>>
    /\ <<"user_1", "a">> \notin users_vectors
    /\ "a" \in DOMAIN vectors /\ vectors["a"] = SeedRow
    /\ "a" \in Candidates("user_2")

\* C22: an add decision creates exactly one record under an id the store
\* did not hold, whose metadata content is the decided fact, creates exactly
\* the link (userId, new id), removes no link and appends no audit record;
\* the steps of the decision before its insert change no table.
C22_AddCreatesOneRecord ==
    [][\A r \in Runs :
          (mpc[r] \in {"decision", "embedFact", "insert"} /\ di[r] <= Len(decisions[r])
             /\ Decision(r).action = "add" /\ mpc'[r] # "failed") =>
            IF mpc[r] = "insert"
              THEN \E new \in DOMAIN vectors' \ DOMAIN vectors :
                     /\ DOMAIN vectors' = DOMAIN vectors \cup {new}
                     /\ \A id \in DOMAIN vectors : vectors'[id] = vectors[id]
                     /\ Content(vectors'[new].metadata) = Decision(r).fact
                     /\ vectors'[new].values = vector[r]
                     /\ users_vectors' = users_vectors \cup {<<userId[r], new>>}
                     /\ <<userId[r], new>> \notin users_vectors
                     /\ memory_updates' = memory_updates
                     /\ di'[r] = di[r] + 1
              ELSE UNCHANGED dbVars]_vars

\* An add decision that names a target has been applied: its record and
\* link are there, the target's link is untouched and nothing was audited.
C22_Witness ==
    /\ mpc["r1"] = "decision" /\ di["r1"] = 2
    /\ decisions["r1"][1].action = "add" /\ decisions["r1"][1].target_id = "a"
    /\ DOMAIN vectors = {"a", "uuid1"}
    /\ Content(vectors["uuid1"].metadata) = decisions["r1"][1].fact
    /\ users_vectors = {<<userId["r1"], "a">>, <<userId["r1"], "uuid1">>}
    /\ memory_updates = <<>>

Fetched == { row.id : row \in resp.rows }
\* Is no user linked to the id.
Unlinked(id) == \A l \in users_vectors : l[2] # id

\* What the last step answered agrees with the records and links alone: a
\* user-scoped query returns only records linked to that user; a query
\* without a user ranks every record, so a record it leaves out is outranked
\* by topK others; getByIds returns every record among the ids asked for.
AnswersFromRecordsAndLinks ==
    /\ Answered("query", 200) =>
         LET u == resp.req.userId
             cands == IF Truthy(u) THEN { id \in DOMAIN vectors : <<u, id>> \in users_vectors }
                      ELSE DOMAIN vectors IN
         resp.ids \in TopK(cands, resp.req.vector, resp.req.topK)
    /\ resp.op = "getByIds" =>
         /\ resp.status = 200
         /\ resp.rows = { [id |-> i, values |-> vectors[i].values, metadata |-> vectors[i].metadata] :
                            i \in resp.req.ids \cap DOMAIN vectors }

\* C25: the audit log only grows at its end: no step changes or removes a
\* row of memory_updates, a hard delete of the record a row names changes
\* nothing in it, and the answers of query and getByIds are those the
\* records and links alone determine, whatever the log holds.
C25_AuditAppendOnly ==
    [][/\ Len(memory_updates') >= Len(memory_updates)
       /\ SubSeq(memory_updates', 1, Len(memory_updates)) = memory_updates
       /\ resp'.op \in {"deleteByIds", "query", "getByIds"} => memory_updates' = memory_updates
       /\ AnswersFromRecordsAndLinks']_vars

\* The record an audit row names has been hard-deleted: the row is still
\* there as it was written.
C25_Witness ==
    /\ Answered("deleteByIds", 200)
    /\ resp.ids = <<"a">>
    /\ Len(memory_updates) = 1
    /\ memory_updates[1] = AuditRow("user_1", "a", "forgotten")

\* C26: deleteMemory never deletes a record, so one that loses its last link
\* stays stored: no user-scoped query returns it, getByIds returns it, and a
\* query without userId ranks it with all other records.
C26_UnlinkedRecordStays ==
    [][/\ resp'.op = "delete-memory" =>
            /\ vectors' = vectors
            /\ users_vectors \ users_vectors' \subseteq {<<resp'.req.userId, resp'.req.vectorId>>}
       /\ AnswersFromRecordsAndLinks'
       /\ (Answered("query", 200) /\ Truthy(resp.req.userId))' =>
            \A i \in 1..Len(resp'.ids) : \E l \in users_vectors' : l[2] = resp'.ids[i]
       /\ (resp.op = "getByIds")' =>
            \A id \in resp'.req.ids \cap DOMAIN vectors' : id \in Fetched']_vars

\* The record "a", whose only link a delete-memory removed, is fetched by
\* getByIds.
C26_Witness ==
    /\ resp.op = "getByIds" /\ "a" \in Fetched
    /\ Unlinked("a")
    /\ Len(memory_updates) = 1 /\ memory_updates[1].old_vector_id = "a"

\* Is an embedding of zero magnitude.
ZeroMagnitude(x) == Norm2(x) = 0

\* C29: a query whose embedding, or one of whose candidates' embeddings,
\* has zero magnitude fails, and no answer holds a match whose score was
\* computed from an all-zero vector.
C29_ZeroMagnitudeRejected ==
    resp.op = "query" =>
      /\ \A i \in 1..Len(resp.ids) :
            ~ZeroMagnitude(resp.req.vector) /\ ~ZeroMagnitude(ValuesOf(resp.ids[i]))
      /\ (resp.req.topK > 0 /\ Asked # {}
            /\ (ZeroMagnitude(resp.req.vector) \/ \E c \in Asked : ZeroMagnitude(ValuesOf(c)))) =>
           resp.status = 500

\* A query with the embedding [0,0,0] was answered with a match.
C29_Witness ==
    /\ Answered("query", 200)
    /\ resp.req.vector = <<0, 0, 0>>
    /\ Len(resp.ids) > 0

\* The score 1 - (x <=> q) is exactly 1, 0, -1.
ScoreIsOne(q, x) == ~IsNaN(q, x) /\ Dot(q, x) > 0 /\ Dot(q, x) * Dot(q, x) = Norm2(q) * Norm2(x)
ScoreIsZero(q, x) == ~IsNaN(q, x) /\ Dot(q, x) = 0
ScoreIsMinusOne(q, x) == ~IsNaN(q, x) /\ Dot(q, x) < 0 /\ Dot(q, x) * Dot(q, x) = Norm2(q) * Norm2(x)

\* The place of the corpus vectors in the ranking for the query [1,0,0]:
\* same direction, close, orthogonal, opposite.
Tier(x) ==
    CASE x \in {<<1, 0, 0>>, <<2, 0, 0>>} -> 1
      [] x = <<99, 14, 0>> -> 2
      [] x = <<0, 1, 0>> -> 3
      [] x = <<-1, 0, 0>> -> 4
      [] OTHER -> 5

\* C30: for the query [1,0,0] the records pointing the same way at either
\* scale score 1 and tie, the orthogonal one scores 0, the opposite one -1,
\* and every answer lists same-direction records before the close one,
\* that before the orthogonal one, that before the opposite one, leaving out
\* only records no better than those it returns.
C30_CosineRanking ==
    LET q == <<1, 0, 0>> IN
    /\ ScoreIsOne(q, <<1, 0, 0>>) /\ ScoreIsOne(q, <<2, 0, 0>>)
    /\ ScoreGE(q, <<1, 0, 0>>, <<2, 0, 0>>) /\ ScoreGE(q, <<2, 0, 0>>, <<1, 0, 0>>)
    /\ ScoreGT(q, <<2, 0, 0>>, <<99, 14, 0>>) /\ ~ScoreIsOne(q, <<99, 14, 0>>)
    /\ ScoreGT(q, <<99, 14, 0>>, <<0, 1, 0>>)
    /\ ScoreIsZero(q, <<0, 1, 0>>) /\ ScoreIsMinusOne(q, <<-1, 0, 0>>)
    /\ (Answered("query", 200) /\ resp.req.vector = q) =>
         /\ \A i, j \in 1..Len(resp.ids) :
               i < j => Tier(ValuesOf(resp.ids[i])) <= Tier(ValuesOf(resp.ids[j]))
         /\ \A c \in Asked \ Range(resp.ids) : \A i \in 1..Len(resp.ids) :
               Tier(ValuesOf(resp.ids[i])) <= Tier(ValuesOf(c))

\* The query [1,0,0] with topK 2 over the scaled, the close and the opposite
\* record returned the scaled one, then the close one.
C30_Witness ==
    /\ Answered("query", 200)
    /\ resp.req.vector = <<1, 0, 0>>
    /\ Len(resp.ids) = 2
    /\ ValuesOf(resp.ids[1]) = <<2, 0, 0>> /\ ValuesOf(resp.ids[2]) = <<99, 14, 0>>
    /\ \E c \in Asked \ Range(resp.ids) : ValuesOf(c) = <<-1, 0, 0>>

\* The records linked to the user whose content is the fact.
MemoriesOf(u, fact) == { id \in Candidates(u) : Content(vectors[id].metadata) = fact }
\* Did the retrieval of run r hand over a memory of the fact.
Retrieved(r, fact) == \E i \in 1..Len(existing[r]) : existing[r][i].content = fact
\* Has run r returned after the single decision to add the fact.
AddedFact(r, fact) ==
    /\ mpc[r] = "returned"
    /\ Len(decisions[r]) = 1
    /\ decisions[r][1].action = "add" /\ decisions[r][1].fact = fact

Responded(r) == chat[r].pc = "responded"
\* The turn's pipeline run has been dispatched and has not completed.
Running(r) == mpc[r] \notin {"idle", "returned", "failed"}

\* C23: the handler dispatches the pipeline in one step and goes on without
\* waiting: while it is ready to answer it can answer whatever the pipeline
\* is doing; the answer is made of the handler's own locals and changes no
\* pipeline variable; no step of the pipeline changes the handler's locals
\* or an answer already sent, so status and body are the same however the
\* pipeline ends.
C23_DispatchWithoutAwait ==
    [][\A r \in Runs :
          /\ chat[r].pc = "generate" => ENABLED ChatRespond(r)
          /\ chat[r].pc = "dispatch" =>
               chat'[r].pc = "generate" /\ mpc'[r] \in {"idle", "extract"}
          /\ (mpc[r] # "idle" /\ Progress(r)' # Progress(r)) => chat' = chat
          /\ Responded(r) => chat'[r] = chat[r]
          /\ (chat[r].pc = "generate" /\ Responded(r)') =>
               /\ UNCHANGED <<dbVars, memVars>>
               /\ chat'[r].status \in {200, 500}
               /\ chat'[r].body = (IF chat'[r].status = 500 THEN "error"
                                   ELSE IF chat[r].stream THEN "stream" ELSE "completion")
               /\ chat'[r].memories = (IF chat'[r].body = "completion"
                                         THEN chat[r].relevantMemories ELSE NoMemories)]_vars

\* The handler has answered 200 while the pipeline it dispatched is still
\* at its first stage.
C23_Witness ==
    /\ Responded("r1") /\ chat["r1"].status = 200 /\ chat["r1"].body = "completion"
    /\ mpc["r1"] = "extract"
    /\ Running("r1")

\* C24: a request without the user header retrieves nothing, dispatches no
\* pipeline run, carries no memory (the memories list of its completion is
\* empty), and no step of its turn changes records, links or audit log.
C24_AnonymousMode ==
    [][\A r \in Runs :
          (~Truthy(chat'[r].userId) /\ chat'[r].pc # "idle") =>
            /\ chat'[r].pc # "retrieve"
            /\ mpc'[r] = "idle"
            /\ chat'[r].relevantMemories = <<>>
            /\ chat'[r].body = "completion" => chat'[r].memories = <<>>
            /\ UNCHANGED dbVars]_vars

\* A request with a user message and no user header has been answered with
\* an empty memories list, on a store that holds a memory.
C24_Witness ==
    /\ Responded("r1") /\ chat["r1"].userId = NoUser /\ chat["r1"].message
    /\ chat["r1"].status = 200 /\ chat["r1"].body = "completion"
    /\ chat["r1"].memories = <<>>
    /\ mpc["r1"] = "idle"
    /\ users_vectors # {}

\* ------------------------------------------------- supersession in the audit

\* The decision of run r whose deleteMemory found the link it removes. The
\* store of a run holds one record its user may be linked to, and the run
\* creates links to fresh ids only, so it is the first decision that calls
\* deleteMemory.
Superseding(r) == Kth(Deleting(r, Len(decisions[r])), 1)
\* The id of the record the j-th decision of run r inserted.
InsertedBy(r, j) == UUIDs[Cardinality(Adding(r, j))]

\* C31: once the replace decision that unlinked a memory has completed, the
\* audit record of that replacement names the replaced memory as its
\* old_vector_id and the record inserted in its place as its new_vector_id.
C31_AuditTracksSupersession ==
    (memory_updates # <<>> /\ Done("r1") >= Superseding("r1")) =>
      /\ memory_updates[1].old_vector_id = decisions["r1"][Superseding("r1")].target_id
      /\ memory_updates[1].new_vector_id = InsertedBy("r1", Superseding("r1"))

\* What the audit record of a replacement does hold: the user, the replaced
\* memory and the reason; its new_vector_id is NULL.
C31_AuditNamesOldOnly ==
    (memory_updates # <<>> /\ Done("r1") >= Superseding("r1")) =>
      /\ memory_updates[1].user_id = userId["r1"]
      /\ memory_updates[1].old_vector_id = decisions["r1"][Superseding("r1")].target_id
      /\ memory_updates[1].new_vector_id = "NULL"
      /\ InsertedBy("r1", Superseding("r1")) \in DOMAIN vectors

\* A run replaced the memory "a" by a record of the fact f1 and returned:
\* the replacement is stored and linked, the audit record is written.
C31_Witness ==
    /\ mpc["r1"] = "returned"
    /\ Len(decisions["r1"]) = 1 /\ NeedsDelete(decisions["r1"][1])
    /\ Len(memory_updates) = 1 /\ memory_updates[1].old_vector_id = "a"
    /\ <<userId["r1"], "a">> \notin users_vectors
    /\ <<userId["r1"], "uuid1">> \in users_vectors
    /\ Content(vectors["uuid1"].metadata) = decisions["r1"][1].fact

\* ------------------------------------------------- isolation between users

\* What POST /query may answer to user u for the embedding q and the count
\* k, with values and metadata: every order the engine may return.
ScopedAnswers(u, q, k) ==
    { [i \in 1..Len(s) |-> [id |-> s[i], values |-> vectors[s[i]].values,
                            metadata |-> vectors[s[i]].metadata]] :
        s \in TopK(Candidates(u), q, k) }

\* C32: no step of a pipeline run of one user, whatever targets and actions
\* its decisions carry, changes what a query scoped to another user may
\* return (ids, values, metadata), nor that user's links.
C32_OtherUsersUnaffected ==
    [][\A u \in Users \ {userId'["r1"]} :
          /\ \A q \in ChatEmbeddings, k \in {1, RetrieveTopK} :
                ScopedAnswers(u, q, k)' = ScopedAnswers(u, q, k)
          /\ { l \in users_vectors' : l[1] = u } = { l \in users_vectors : l[1] = u }]_vars

\* The run of user_1 returned after a replace that names the memory linked
\* to user_2 alone and a replace that names an id that does not exist:
\* user_2 still retrieves the memory, user_1 got two records of its own.
C32_Witness ==
    /\ mpc["r1"] = "returned" /\ userId["r1"] = "user_1"
    /\ Len(decisions["r1"]) = 2
    /\ decisions["r1"][1].action = "replace" /\ decisions["r1"][1].target_id = "a"
    /\ decisions["r1"][2].action = "replace" /\ decisions["r1"][2].target_id = Ghost
    /\ Candidates("user_2") = {"a"} /\ vectors["a"] = SeedRow
    /\ Candidates("user_1") = {"uuid1", "uuid2"}
    /\ memory_updates = <<>>

\* --------------------------------------------------- replace without target

\* The decision run r is at is a replace that carries no target_id.
Untargeted(r) ==
    /\ mpc[r] \in {"decision", "embedFact", "insert"} /\ di[r] <= Len(decisions[r])
    /\ Decision(r).action = "replace" /\ ~Truthy(Decision(r).target_id)

\* C33: a replace decision without target_id goes the way of an add: it
\* calls no deleteMemory, its steps before the insert change no table, and
\* its insert creates one record of the decided fact under a fresh id and
\* the link (userId, id), removes no link and appends no audit record.
C33_ReplaceWithoutTargetAdds ==
    [][\A r \in Runs :
          (Untargeted(r) /\ mpc'[r] # "failed") =>
            IF mpc[r] = "insert"
              THEN \E new \in DOMAIN vectors' \ DOMAIN vectors :
                     /\ DOMAIN vectors' = DOMAIN vectors \cup {new}
                     /\ \A id \in DOMAIN vectors : vectors'[id] = vectors[id]
                     /\ vectors'[new] = [values |-> vector[r],
                                         metadata |-> MemoryMetadata(Decision(r).fact)]
                     /\ users_vectors' = users_vectors \cup {<<userId[r], new>>}
                     /\ memory_updates' = memory_updates
                     /\ di'[r] = di[r] + 1
              ELSE /\ UNCHANGED dbVars
                   /\ di'[r] = di[r] /\ mpc'[r] = "insert"]_vars

\* A replace without target_id has been applied while the user was linked
\* to a memory: the new record and its link are there, the old link is
\* kept and nothing was audited.
C33_Witness ==
    /\ mpc["r1"] = "decision" /\ di["r1"] = 2
    /\ decisions["r1"][1].action = "replace" /\ decisions["r1"][1].target_id = NoTarget
    /\ DOMAIN vectors = {"a", "uuid1"}
    /\ Content(vectors["uuid1"].metadata) = decisions["r1"][1].fact
    /\ users_vectors = {<<userId["r1"], "a">>, <<userId["r1"], "uuid1">>}
    /\ memory_updates = <<>>

\* ------------------------------------------------ replace of a missing link

\* Run r is at a replace decision whose target is not linked to its user.
TargetNotLinked(r) ==
    /\ InLoop(r) /\ NeedsDelete(Decision(r))
    /\ <<userId[r], Decision(r).target_id>> \notin users_vectors

\* C34: the deleteMemory of a replace whose target is not linked to the
\* user succeeds and changes no table (no audit record, no link removed),
\* and the insert of a replace decision, whatever its deleteMemory found,
\* adds the record of the new fact and its link to the user, removes no
\* link and writes no audit record.
C34_ReplaceOfMissingLink ==
    [][\A r \in Runs :
          /\ TargetNotLinked(r) =>
               /\ ENABLED (ReplaceDelete(r) /\ mpc'[r] = "embedFact")
               /\ mpc'[r] = "embedFact" => UNCHANGED dbVars
          /\ (mpc[r] = "embedFact" /\ NeedsDelete(Decision(r))) => ENABLED EmbedFact(r)
          /\ (mpc[r] = "insert" /\ NeedsDelete(Decision(r))) =>
               /\ ENABLED InsertFact(r)
               /\ mpc'[r] = "decision" =>
                    /\ DOMAIN vectors' = DOMAIN vectors \cup {uuid[r]}
                    /\ uuid[r] \notin DOMAIN vectors
                    /\ Content(vectors'[uuid[r]].metadata) = Decision(r).fact
                    /\ users_vectors' = users_vectors \cup {<<userId[r], uuid[r]>>}
                    /\ memory_updates' = memory_updates]_vars

\* Two overlapping runs of user_1 were both handed the memory "a" and both
\* decided to replace it: one deleteMemory found the link and audited it,
\* the other found none; both runs returned and both new records are linked.
C34_Witness ==
    /\ mpc["r1"] = "returned" /\ mpc["r2"] = "returned"
    /\ \A r \in Runs :
          /\ userId[r] = "user_1"
          /\ Len(decisions[r]) = 1 /\ NeedsDelete(decisions[r][1])
          /\ \E i \in 1..Len(existing[r]) : existing[r][i].id = "a"
    /\ Len(memory_updates) = 1
    /\ Candidates("user_1") = {"uuid1", "uuid2"}

\* ------------------------------------------- retrieval before the dispatch

\* The ids the pipeline runs insert their records under.
RunIds == Range(UUIDs)

\* C35: the handler's retrieval runs while the turn's pipeline has not been
\* dispatched and no record of it is stored; once the pipeline is
\* dispatched the retrieved memories no longer change; the completion
\* returns exactly them; so every memory returned is the content of a record
\* that the turn's own run did not insert.
C35_RetrievalBeforeDispatch ==
    [][/\ chat["r1"].pc \in {"idle", "retrieve"} =>
            mpc["r1"] = "idle" /\ DOMAIN vectors \cap RunIds = {}
       /\ mpc["r1"] # "idle" =>
            /\ chat["r1"].pc \in {"generate", "responded"}
            /\ chat'["r1"].relevantMemories = chat["r1"].relevantMemories
       /\ (chat'["r1"].pc = "responded" /\ chat'["r1"].body = "completion") =>
            chat'["r1"].memories = chat'["r1"].relevantMemories
       /\ \A i \in 1..Len(chat'["r1"].relevantMemories) :
            \E id \in DOMAIN vectors' \ RunIds :
               Content(vectors'[id].metadata) = chat'["r1"].relevantMemories[i]]_vars

\* The turn's run committed a record of f1 for the user, as close to the
\* message as the stored memory, and the completion of the same turn returned
\* the stored memory alone.
C35_Witness ==
    /\ chat["r1"].pc = "responded" /\ chat["r1"].body = "completion"
    /\ chat["r1"].memories = <<"f0">>
    /\ \E id \in Candidates(chat["r1"].userId) \cap RunIds :
          /\ Content(vectors[id].metadata) = "f1"
          /\ vectors[id].values = vectors["a"].values

\* ------------------------------------------------------ referential integrity

\* C36: every link refers to a stored record, in every state every
\* interleaving of the writers reaches.
C36_LinksReferToRecords ==
    \A l \in users_vectors : l[2] \in DOMAIN vectors

\* A hard delete has removed the record that an open transaction found
\* stored and is about to link: the case in which a link without a record
\* would be written.
C36_Witness ==
    /\ Answered("deleteByIds", 200)
    /\ "a" \in Range(resp.ids)
    /\ "a" \notin DOMAIN vectors
    /\ \E q \in Procs : pc[q] = "link" /\ v[q].id = "a" /\ ~VecVisible(tx[q], "a")

\* ------------------------------------------------- retrieval failure

\* C37: when the handler's retrieval fails, the handler goes on to the
\* dispatch with no memories; it then dispatches the turn's pipeline for
\* the user of the request, can produce its answer, and a completion it
\* returns carries an empty memories list; the failure alone never makes
\* the answer an error.
C37_RetrievalFailureContinues ==
    [][LET c == chat["r1"]  d == chat'["r1"] IN
       /\ (c.pc = "retrieve" /\ d.retrievalFailed) =>
             d.pc = "dispatch" /\ d.relevantMemories = <<>> /\ d.status = 0
       /\ d.retrievalFailed => d.relevantMemories = <<>>
       /\ (c.retrievalFailed /\ c.pc = "dispatch") =>
             /\ ENABLED ChatDispatch("r1")
             /\ d.pc # "dispatch" =>
                   /\ d.pc = "generate"
                   /\ mpc["r1"] = "idle" /\ mpc'["r1"] = "extract"
                   /\ userId'["r1"] = c.userId /\ Truthy(c.userId)
       /\ (c.retrievalFailed /\ c.pc = "generate") =>
             /\ ENABLED (ChatRespond("r1") /\ chat'["r1"].status = 200)
             /\ (d.pc = "responded" /\ d.status = 200) =>
                   /\ mpc["r1"] # "idle"
                   /\ d.memories = IF c.stream THEN NoMemories ELSE <<>>]_vars

\* The user's stored memory matches the message, the retrieval failed, and
\* the turn was answered with a completion without memories while its
\* pipeline run was dispatched.
C37_Witness ==
    /\ chat["r1"].retrievalFailed
    /\ chat["r1"].pc = "responded" /\ chat["r1"].status = 200
    /\ chat["r1"].body = "completion" /\ chat["r1"].memories = <<>>
    /\ mpc["r1"] # "idle" /\ userId["r1"] = chat["r1"].userId
    /\ "a" \in Candidates(chat["r1"].userId)
    /\ \E q \in ChatEmbeddings : Relevant(q, vectors["a"].values)

\* ------------------------------------------------------ older and newer turns

\* The memories created from the newer turn: the records of its fact.
FromNewerTurn == { id \in DOMAIN vectors : Content(vectors[id].metadata) = TurnFact("r2") }

\* C38: a deleteMemory of the run of the older turn never removes the link
\* to a memory that was created from the newer turn.
C38_OlderTurnNeverReplacesNewer ==
    [][(mpc["r1"] = "decision" /\ mpc'["r1"] = "embedFact") =>
          \A l \in users_vectors \ users_vectors' : l[2] \notin FromNewerTurn]_vars

\* What holds in its place: the run unlinks the target its decision names,
\* whenever the user is linked to it, whichever turn created it.
C38_ReplacesWhateverIsNamed ==
    [][(mpc["r1"] = "decision" /\ mpc'["r1"] = "embedFact") =>
          users_vectors' = users_vectors \ {<<userId["r1"], Decision("r1").target_id>>}]_vars

\* Both runs have returned; the memory of the newer turn was stored first,
\* the run of the older turn then replaced it: the user is left with the
\* older turn's fact and the audit names the newer memory as replaced.
C38_Witness ==
    /\ mpc["r1"] = "returned" /\ mpc["r2"] = "returned"
    /\ FromNewerTurn # {}
    /\ FromNewerTurn \cap Candidates("user_1") = {}
    /\ \E id \in Candidates("user_1") : Content(vectors[id].metadata) = TurnFact("r1")
    /\ \E k \in 1..Len(memory_updates) : memory_updates[k].old_vector_id \in FromNewerTurn

\* ------------------------------------------------------------ database start

\* C39: initDb sends CREATE EXTENSION at most `retries` times; after a
\* failed attempt it waits and tries again only when the attempt was not the
\* last and the code is 57P03 or ECONNREFUSED; a non-final attempt that
\* fails with another code makes initDb throw, with no further attempt; a
\* failed final attempt exits the process; the tables are created only
\* after an attempt succeeded; and after a throw or an exit nothing more
\* happens.
C39_InitDbRetries ==
    [][/\ boot'.attempts <= boot'.retries
       /\ boot'.attempts \in {boot.attempts, boot.attempts + 1}
       /\ (boot.pc = "attempt" /\ ~boot'.extension) =>
             boot'.pc = IF boot.i = boot.retries - 1 THEN "exited"
                        ELSE IF Retryable(boot'.code) THEN "delay" ELSE "thrown"
       /\ (boot.pc = "attempt" /\ boot'.extension) => boot'.pc = "schema"
       /\ boot.pc = "delay" =>
             /\ Retryable(boot.code) /\ boot.i < boot.retries - 1
             /\ boot'.pc = "attempt" /\ boot'.i = boot.i + 1
       /\ boot'.pc = "attempt" => boot'.attempts = boot'.i /\ ~boot'.extension
       /\ boot'.pc \in {"schema", "done"} => boot'.extension
       /\ boot'.tables => boot'.extension /\ boot'.pc = "done"
       /\ boot.pc \in {"thrown", "exited", "done"} => boot' = boot]_vars

\* The database was not ready twice, the third of five attempts succeeded
\* and the tables were created.
C39_Witness ==
    /\ boot.pc = "done" /\ boot.retries = DefaultRetries
    /\ boot.attempts = 3 /\ boot.i = 2
    /\ Retryable(boot.code)
    /\ boot.extension /\ boot.tables

\* initDb has thrown on a non-final attempt, after one retry.
C39_ThrownWitness ==
    /\ boot.pc = "thrown" /\ boot.code = "other"
    /\ boot.attempts = 2 /\ boot.retries > 2
    /\ ~boot.tables

\* The final attempt failed with a code that is retried on other attempts:
\* the process exited.
C39_ExitWitness ==
    /\ boot.pc = "exited" /\ Retryable(boot.code)
    /\ boot.attempts = boot.retries /\ boot.retries > 1
    /\ ~boot.extension /\ ~boot.tables

\* ------------------------------------------------------- deployment and CI

\* The check runs of a commit include none that failed and none that has
\* not completed.
Passing(c) == FAILURES(mon.checks[c]) = {} /\ IN_PROGRESS(mon.checks[c]) = {}
\* The step resets the working tree to the fetched commit.
Pulls == mon.pc = "deploy" /\ mon'.pc \in {"compose", "exited"}
\* The step rebuilds and restarts the services.
Restarts == mon.pc = "compose" /\ mon'.pc = "fetch"

\* C40: with GITHUB_TOKEN set the monitor resets to a fetched commit, and
\* restarts the services on it, only when the check runs of that commit
\* include no failed and no unfinished run; a commit found in progress is
\* left alone, examined again at the next poll, and deployed when its check
\* runs are all successful.
C40_DeploysOnlyPassingCommits ==
    [][mon.token =>
         /\ Pulls => Passing(mon.remote)
         /\ Restarts => Passing(mon.local)
         /\ (mon.pc = "check" /\ ~Passing(mon.remote)) =>
               /\ mon'.pc # "deploy"
               /\ mon'.pc = "fetch" => mon'.local = mon.local /\ ~mon'.firstRun
         /\ (mon.pc = "fetch" /\ mon.local # mon.remote) => ENABLED (Fetch /\ mon'.pc = "check")
         /\ (mon.pc = "check" /\ mon'.pc # "check" /\ mon.checks[mon.remote] = {Succeeded}) =>
               mon'.pc = "deploy"]_vars

\* What the monitor does hold to: with GITHUB_TOKEN set it resets and
\* restarts only after its two greps found nothing in what curl printed; an
\* answer from the API that lists a failed or unfinished run stops the
\* poll, HEAD stays, and the commit is examined again while it is the
\* fetched head; an answer that lists successful runs only leads to the
\* deploy.
C40_DeploysOnGreenAnswer ==
    [][mon.token =>
         /\ Pulls => mon.answer = "green"
         /\ Restarts => mon.answer = "green"
         /\ (mon.pc = "check" /\ mon'.curlOk /\ mon'.pc # "check" /\ ~Passing(mon.remote)) =>
               /\ mon'.pc = "fetch"
               /\ mon'.local = mon.local /\ ~mon'.firstRun
               /\ mon'.answer \in {"failure", "in_progress"}
         /\ (mon.pc = "fetch" /\ mon.local # mon.remote) => ENABLED (Fetch /\ mon'.pc = "check")
         /\ (mon.pc = "check" /\ mon'.curlOk /\ mon'.pc # "check" /\ Passing(mon.remote)) =>
               mon'.pc = "deploy"]_vars

\* GITHUB_TOKEN is set, the CI query for the fetched commit got no answer,
\* and the monitor has reset to that commit and restarted the services on
\* it although one of its check runs had failed.
C40_Witness ==
    /\ mon.token /\ ~mon.curlOk /\ mon.answer = "green"
    /\ mon.local = mon.remote /\ mon.local # Commits[1]
    /\ mon.local \in mon.pulled /\ mon.local \in mon.restarted
    /\ FAILURES(mon.checks[mon.local]) # {}

====
